---- MODULE Spec2Model ----
(***************************************************************************)
(* The batched translation pipeline of fengwen2 (translation.py,           *)
(* class TranslationService): find_chinese_texts, translate_batch,         *)
(* batch_translate, apply_translations and translate_json.                 *)
(*                                                                         *)
(* A Python str is a sequence of Unicode code points.  A JSON document is  *)
(* a tree of tagged records:                                               *)
(*   [t |-> "str",  s |-> <<code points>>]                                 *)
(*   [t |-> "num",  n |-> integer]                                         *)
(*   [t |-> "list", items |-> <<documents>>]                               *)
(*   [t |-> "dict", entries |-> << [k |-> string, v |-> document] >>]      *)
(* A dict keeps its entries in insertion order and its keys are unique.    *)
(* A Python dict from str to str (the translation map) is a function whose *)
(* domain is a set of strings.                                             *)
(***************************************************************************)
EXTENDS Integers, Sequences, FiniteSets, TLC

(***************************************************************************)
(* Characters                                                              *)
(***************************************************************************)

\* the code points the model's strings are written with
Ch == [nl |-> 10, sp |-> 32, dot |-> 46, d0 |-> 48, d1 |-> 49, d2 |-> 50,
       d3 |-> 51, J |-> 74, G |-> 71, Q |-> 81, a |-> 97,
       xi |-> 21916, shen |-> 31070]

\* str.isspace(): the characters str.strip() removes and \s matches
IsSpace(c) ==
    \/ c \in 9..13
    \/ c \in 28..32
    \/ c \in {133, 160, 5760, 8232, 8233, 8239, 8287, 12288}
    \/ c \in 8192..8202

\* \d of the regular expression (the ASCII decimal digits)
IsDigit(c) == c \in 48..57

\* has_chinese: any(U+4E00 <= c <= U+9FFF for c in text)
has_chinese(text) == \E i \in 1..Len(text) : 19968 <= text[i] /\ text[i] <= 40959

(***************************************************************************)
(* str methods                                                             *)
(***************************************************************************)

\* str.strip()
Strip(s) ==
    LET keep == {i \in 1..Len(s) : ~IsSpace(s[i])}
    IN  IF keep = {} THEN <<>>
        ELSE LET lo == CHOOSE i \in keep : \A j \in keep : i <= j
                 hi == CHOOSE i \in keep : \A j \in keep : j <= i
             IN  SubSeq(s, lo, hi)

\* str.split('\n'): always at least one piece
RECURSIVE Split(_)
Split(s) ==
    LET nls == {i \in 1..Len(s) : s[i] = Ch.nl}
    IN  IF nls = {} THEN <<s>>
        ELSE LET p == CHOOSE i \in nls : \A j \in nls : i <= j
             IN  <<SubSeq(s, 1, p - 1)>> \o Split(SubSeq(s, p + 1, Len(s)))

\* '\n'.join(lines)
RECURSIVE Join(_)
Join(lines) ==
    IF Len(lines) = 0 THEN <<>>
    ELSE IF Len(lines) = 1 THEN lines[1]
    ELSE lines[1] \o <<Ch.nl>> \o Join(Tail(lines))

\* int(digits)
RECURSIVE IntOf(_)
IntOf(digits) ==
    IF digits = <<>> THEN 0
    ELSE 10 * IntOf(SubSeq(digits, 1, Len(digits) - 1)) + (digits[Len(digits)] - 48)

(***************************************************************************)
(* dict operations                                                         *)
(***************************************************************************)

EmptyMap == [u \in {} |-> <<>>]

\* d.get(k, default)
Get(m, k, default) == IF k \in DOMAIN m THEN m[k] ELSE default

\* d[k] = v
Put(m, k, v) == [u \in (DOMAIN m) \cup {k} |-> IF u = k THEN v ELSE m[u]]

\* d.update(other)
Update(m, other) ==
    [u \in (DOMAIN m) \cup (DOMAIN other) |-> IF u \in DOMAIN other THEN other[u] ELSE m[u]]

\* a deduplication that keeps the last occurrence of each element
RECURSIVE FromKeysKeepLast(_)
FromKeysKeepLast(seq) ==
    IF seq = <<>> THEN <<>>
    ELSE LET rest == FromKeysKeepLast(Tail(seq))
         IN  IF \E i \in 1..Len(rest) : rest[i] = seq[1] THEN rest
             ELSE <<seq[1]>> \o rest

\* list(dict.fromkeys(seq)): first occurrences, in order
RECURSIVE FromKeys(_)
FromKeys(seq) ==
    IF seq = <<>> THEN <<>>
    ELSE LET front == FromKeys(SubSeq(seq, 1, Len(seq) - 1))
             last  == seq[Len(seq)]
         IN  IF \E i \in 1..Len(front) : front[i] = last THEN front
             ELSE Append(front, last)

\* result[new_key] = value on an insertion-ordered dict: an existing key keeps
\* its position and takes the new value
RECURSIVE SetItem(_, _, _)
SetItem(entries, k, v) ==
    IF entries = <<>> THEN << [k |-> k, v |-> v] >>
    ELSE IF entries[1].k = k THEN << [k |-> k, v |-> v] >> \o Tail(entries)
    ELSE <<entries[1]>> \o SetItem(Tail(entries), k, v)

Range(seq) == {seq[i] : i \in 1..Len(seq)}

(***************************************************************************)
(* find_chinese_texts                                                      *)
(***************************************************************************)

\* the lines of one string leaf: for line in lines: line = line.strip();
\* if self.has_chinese(line) and line: texts.append(line)
RECURSIVE ChineseLines(_)
ChineseLines(lines) ==
    IF lines = <<>> THEN <<>>
    ELSE LET line == Strip(lines[1])
         IN  (IF has_chinese(line) /\ line # <<>> THEN <<line>> ELSE <<>>)
                 \o ChineseLines(Tail(lines))

RECURSIVE extract(_)
RECURSIVE extractEntries(_)
RECURSIVE extractItems(_)
\* extract without "if self.has_chinese(data.strip()): texts.append(data.strip())"
extractLinesOnly(data) ==
    IF data.t = "dict" THEN extractEntries(data.entries)
    ELSE IF data.t = "list" THEN extractItems(data.items)
    ELSE IF data.t = "str" /\ has_chinese(data.s) /\ Strip(data.s) # <<>>
    THEN ChineseLines(Split(Strip(data.s)))
    ELSE <<>>

\* the inner function extract(data): what it appends to texts, in order
extract(data) ==
    IF data.t = "dict" THEN extractEntries(data.entries)
    ELSE IF data.t = "list" THEN extractItems(data.items)
    ELSE IF data.t = "str" /\ has_chinese(data.s) /\ Strip(data.s) # <<>>
    THEN ChineseLines(Split(Strip(data.s)))
             \o (IF has_chinese(Strip(data.s)) THEN <<Strip(data.s)>> ELSE <<>>)
    ELSE <<>>

\* for key, value in data.items()
extractEntries(entries) ==
    IF entries = <<>> THEN <<>>
    ELSE (IF has_chinese(entries[1].k) /\ Strip(entries[1].k) # <<>>
          THEN <<Strip(entries[1].k)>> ELSE <<>>)
             \o extract(entries[1].v)
             \o extractEntries(Tail(entries))

\* for item in data
extractItems(items) ==
    IF items = <<>> THEN <<>>
    ELSE extract(items[1]) \o extractItems(Tail(items))

\* text for text in texts if text.strip()
RECURSIVE NonBlank(_)
NonBlank(texts) ==
    IF texts = <<>> THEN <<>>
    ELSE (IF Strip(texts[1]) # <<>> THEN <<texts[1]>> ELSE <<>>) \o NonBlank(Tail(texts))

\* find_chinese_texts returning the appended texts without dict.fromkeys
FindChineseTextsNoDedupe(obj) == NonBlank(extract(obj))

\* find_chinese_texts
find_chinese_texts(obj) == FromKeys(NonBlank(extract(obj)))

(***************************************************************************)
(* translate_batch: the response parser                                    *)
(***************************************************************************)

\* re.match(r'^(\d+)\.\s+(.+)', line): the groups, or ok = FALSE.  line is
\* one piece of result.split('\n'), stripped, so it holds no newline and '.'
\* matches each of its characters.
RegexMatch(line) ==
    LET nondigit == {i \in 1..Len(line) : ~IsDigit(line[i])}
        nd == IF nondigit = {} THEN Len(line)
              ELSE (CHOOSE i \in nondigit : \A j \in nondigit : i <= j) - 1
        afterdot == {i \in (nd + 2)..Len(line) : ~IsSpace(line[i])}
        g2 == IF afterdot = {} THEN Len(line) + 1
              ELSE CHOOSE i \in afterdot : \A j \in afterdot : i <= j
    IN  IF /\ nd >= 1
           /\ Len(line) >= nd + 1
           /\ line[nd + 1] = Ch.dot
           /\ g2 > nd + 2
           /\ g2 <= Len(line)
        THEN [ok |-> TRUE, g1 |-> SubSeq(line, 1, nd), g2 |-> SubSeq(line, g2, Len(line))]
        ELSE [ok |-> FALSE, g1 |-> <<>>, g2 |-> <<>>]

\* texts[index] of a Python list: a negative index counts from the end
PyIndex(texts, index) == IF index >= 0 THEN texts[index + 1] ELSE texts[Len(texts) + index + 1]

\* the loop "for line in result.split('\n')" of translate_batch
RECURSIVE ParseLines(_, _, _)
ParseLines(lines, texts, translations) ==
    IF lines = <<>> THEN translations
    ELSE LET match == RegexMatch(Strip(lines[1]))
             index == IntOf(match.g1) - 1
             translation == Strip(match.g2)
         IN  IF match.ok /\ index < Len(texts)
             THEN ParseLines(Tail(lines), texts, Put(translations, PyIndex(texts, index), translation))
             ELSE ParseLines(Tail(lines), texts, translations)

\* the loop "for text in texts: if text not in translations" left out
FillMissingSkipped(texts, translations) == translations

\* for text in texts: if text not in translations: translations[text] = text
FillMissing(texts, translations) ==
    [u \in (DOMAIN translations) \cup Range(texts) |->
        IF u \in DOMAIN translations THEN translations[u] ELSE u]

\* the body of the try block once the response text is there
ParseResponse(texts, result) == FillMissing(texts, ParseLines(Split(result), texts, EmptyMap))

\* an except clause that returns {}
OriginalsEmpty(texts) == EmptyMap

\* return {text: text for text in texts}
Originals(texts) == [u \in Range(texts) |-> u]

(***************************************************************************)
(* apply_translations                                                      *)
(***************************************************************************)

\* [translations.get(line.strip(), line) for line in lines]
TranslatedLines(lines, translations) ==
    [i \in 1..Len(lines) |-> Get(translations, Strip(lines[i]), lines[i])]

\* [line.strip() for line in lines]
StrippedLines(lines) == [i \in 1..Len(lines) |-> Strip(lines[i])]

\* the branch "elif isinstance(obj, str) and self.has_chinese(obj)"
ApplyToString(s, translations) ==
    IF Strip(s) \in DOMAIN translations THEN translations[Strip(s)]
    ELSE LET lines == Split(s)
             translated_lines == TranslatedLines(lines, translations)
         IN  IF translated_lines # StrippedLines(lines) THEN Join(translated_lines) ELSE s

\* a key lookup without the has_chinese test
NewKeyAnyKey(k, translations) == Get(translations, Strip(k), k)

\* new_key = translations.get(k.strip(), k) if ... self.has_chinese(k) else k
NewKey(k, translations) == IF has_chinese(k) THEN Get(translations, Strip(k), k) ELSE k

RECURSIVE apply_translations(_, _)
RECURSIVE applyEntries(_, _, _)
RECURSIVE applyItems(_, _)
apply_translations(obj, translations) ==
    IF obj.t = "dict"
    THEN [t |-> "dict", entries |-> applyEntries(obj.entries, translations, <<>>)]
    ELSE IF obj.t = "list"
    THEN [t |-> "list", items |-> applyItems(obj.items, translations)]
    ELSE IF obj.t = "str" /\ has_chinese(obj.s)
    THEN [t |-> "str", s |-> ApplyToString(obj.s, translations)]
    ELSE obj

\* for k, v in obj.items(): result[new_key] = self.apply_translations(v, ...)
applyEntries(entries, translations, result) ==
    IF entries = <<>> THEN result
    ELSE applyEntries(Tail(entries), translations,
                      SetItem(result, NewKey(entries[1].k, translations),
                              apply_translations(entries[1].v, translations)))

\* [self.apply_translations(item, translations) for item in obj]
applyItems(items, translations) ==
    IF items = <<>> THEN <<>>
    ELSE <<apply_translations(items[1], translations)>> \o applyItems(Tail(items), translations)

(***************************************************************************)
(* Inputs: documents and remote outcomes                                   *)
(***************************************************************************)

\* most entries of a dict and most items of a list in an input document
MaxItems == 2

Str(s) == [t |-> "str", s |-> s]
Num(n) == [t |-> "num", n |-> n]
List(items) == [t |-> "list", items |-> items]
Dict(entries) == [t |-> "dict", entries |-> entries]

\* dictionary keys: "a", " " U+559C, U+795E
KeyStrings ==
    { <<Ch.a>>, <<Ch.sp, Ch.xi>>, <<Ch.shen>> }

\* string leaves: empty, ASCII, one CJK line with and without surrounding
\* blanks, two CJK lines, a CJK line beside a non-CJK line
LeafStrings ==
    { <<>>, <<Ch.a>>, <<Ch.xi>>, <<Ch.sp, Ch.shen, Ch.sp>>,
      <<Ch.xi, Ch.nl, Ch.shen>>, <<Ch.a, Ch.sp, Ch.nl, Ch.xi>> }

Leaves == {Str(s) : s \in LeafStrings} \cup {Num(42)}

SeqsUpTo(S, n) == UNION {[1..m -> S] : m \in 0..n}

ListsOf(S) == {List(items) : items \in SeqsUpTo(S, MaxItems)}

DictsOf(S) ==
    {Dict(entries) : entries \in
        {e \in SeqsUpTo([k : KeyStrings, v : S], MaxItems) :
            \A i, j \in 1..Len(e) : i # j => e[i].k # e[j].k}}

\* containers of one leaf, to be nested in a document
Inner ==
    {List(<<v>>) : v \in Leaves} \cup {Dict(<< [k |-> k, v |-> v] >>) : k \in KeyStrings, v \in Leaves}

\* the documents that are lists
ListDocs == ListsOf(Leaves) \cup {List(<<d>>) : d \in Inner}

\* the documents translate_json is called with
Docs ==
    DictsOf(Leaves) \cup ListDocs
        \cup {Dict(<< [k |-> k, v |-> d] >>) : k \in KeyStrings, d \in Inner}

\* response texts of the remote endpoint (choices[0].message.content):
\*   "1. J\n2. G"   both items of a batch translated
\*   "1 J\n2. G"    item 1 malformed
\*   "1. J\n2. J"   two items with one translation
\*   "0. Q"         index 0
\*   "3. Q"         index beyond the batch
\*   ""             nothing
Responses ==
    { <<Ch.d1, Ch.dot, Ch.sp, Ch.J, Ch.nl, Ch.d2, Ch.dot, Ch.sp, Ch.G>>,
      <<Ch.d1, Ch.sp, Ch.J, Ch.nl, Ch.d2, Ch.dot, Ch.sp, Ch.G>>,
      <<Ch.d1, Ch.dot, Ch.sp, Ch.J, Ch.nl, Ch.d2, Ch.dot, Ch.sp, Ch.J>>,
      <<Ch.d0, Ch.dot, Ch.sp, Ch.Q>>,
      <<Ch.d3, Ch.dot, Ch.sp, Ch.Q>>,
      <<>> }

\* what the request of one batch raises when it fails: raise_for_status
\* (HTTP error status), the 90 s timeout, response.json() on a malformed body
Exceptions == {"HTTPStatusError", "TimeoutException", "JSONDecodeError"}

Outcomes ==
    {[kind |-> "ok", text |-> r] : r \in Responses}
        \cup {[kind |-> e, text |-> <<>>] : e \in Exceptions}

NoOutcome == [kind |-> "none", text |-> <<>>]

(***************************************************************************)
(* translate_json as a state machine                                       *)
(***************************************************************************)

VARIABLES
    data,             \* the argument of translate_json
    pc,               \* "start", "gather" (awaiting asyncio.gather), "done", "raised"
    chinese_texts,    \* find_chinese_texts(data)
    batches,          \* the slices batch_translate cut
    task,             \* per batch: "pending", "holding" (request in flight), "done", "raised"
    sem,              \* the value of the asyncio.Semaphore
    outcome,          \* per batch: what the remote request gave
    batch_results,    \* per batch: [done, map], the result asyncio.gather collects
    completed,        \* the batches in the order their tasks finished
    all_translations, \* the map batch_translate returned
    translated_data,  \* the document translate_json returned
    requests,         \* the number of client.post calls issued
    redis,            \* the Redis keys of EmailService that are live, with their values
    verify_succeeded, \* the emails for which verify_code has returned without raising
    records,          \* the AstrologyRecord rows create_record committed
    cache,            \* the live keys of the astrology cache, with the cached response
    calls,            \* how often the cache and the remote services were called
    response,         \* the HTTP response of the last request handled
    heap,             \* the dict and list objects of one apply_translations call, by identity
    callers,          \* the verify_code calls in progress, each between its Redis commands
    products,         \* the rows of the products table
    tokens,           \* TokenService.tokens: token -> its data
    now               \* the clock TokenService reads (datetime.utcnow)

translateVars == <<data, pc, chinese_texts, batches, task, sem, outcome, batch_results,
                   completed, all_translations, translated_data, requests>>

storeVars == <<callers, products, tokens, now>>

appVars == <<redis, verify_succeeded, records, cache, calls, response, heap, storeVars>>

vars == <<translateVars, appVars>>

NoCalls == [cache_get |-> 0, cache_set |-> 0, astrology |-> 0, translation |-> 0, shopify |-> 0]

NoResponse == [handler |-> "none", email |-> "", status |-> 0]

\* no verify_code call in progress, no product, no token
StoreInit ==
    /\ callers = <<>>
    /\ products = <<>>
    /\ tokens = EmptyMap
    /\ now = 0

\* the web application before its first request: Redis, the database and the
\* cache are empty
AppInit ==
    /\ redis = EmptyMap
    /\ verify_succeeded = {}
    /\ records = <<>>
    /\ cache = EmptyMap
    /\ calls = NoCalls
    /\ response = NoResponse
    /\ heap = <<>>
    /\ StoreInit

max_concurrent == 32
batch_size == 2

NoDoc == [t |-> "none"]

\* a slicing that gives every unit a batch of its own
BatchesOfOne(texts) == [b \in 1..Len(texts) |-> <<texts[b]>>]

\* for i in range(0, len(texts_list), self.batch_size): texts_list[i:i + batch_size]
Batches(texts) ==
    [b \in 1..((Len(texts) + batch_size - 1) \div batch_size) |->
        SubSeq(texts, (b - 1) * batch_size + 1,
               IF b * batch_size < Len(texts) THEN b * batch_size ELSE Len(texts))]

\* an except clause that names httpx.HTTPError only
CaughtHttpOnly(exc) == exc \in {"HTTPStatusError", "TimeoutException"}

\* except Exception: every exception class of Exceptions derives from Exception
Caught(exc) == exc \in Exceptions

\* translate_batch from the response on: [raised, map]
TranslateBatchResult(texts, o) ==
    IF o.kind = "ok" THEN [raised |-> FALSE, map |-> ParseResponse(texts, o.text)]
    ELSE IF Caught(o.kind) THEN [raised |-> FALSE, map |-> Originals(texts)]
    ELSE [raised |-> TRUE, map |-> EmptyMap]

\* for batch_result in batch_results: all_translations.update(batch_result)
RECURSIVE MergeResults(_)
MergeResults(results) ==
    IF results = <<>> THEN EmptyMap
    ELSE Update(MergeResults(SubSeq(results, 1, Len(results) - 1)), results[Len(results)].map)

\* translate_json is entered with one of the documents D
InitWith(D) ==
    /\ data \in D
    /\ pc = "start"
    /\ chinese_texts = <<>>
    /\ batches = <<>>
    /\ task = <<>>
    /\ sem = 0
    /\ outcome = <<>>
    /\ batch_results = <<>>
    /\ completed = <<>>
    /\ all_translations = EmptyMap
    /\ translated_data = NoDoc
    /\ requests = 0
    /\ AppInit

Init == InitWith(Docs)

\* "return data" of translate_json answering an empty document instead
EmptyReturnEmptyDict(d) == Dict(<<>>)

\* if not chinese_texts: return data
EmptyReturn(d) == d

\* translate_json up to the await of asyncio.gather: find_chinese_texts, the
\* early return, and batch_translate's semaphore, batches and tasks
TranslateJson ==
    /\ pc = "start"
    /\ LET texts == find_chinese_texts(data)
       IN  /\ chinese_texts' = texts
           /\ IF texts = <<>>
              THEN /\ pc' = "done"
                   /\ translated_data' = EmptyReturn(data)
                   /\ UNCHANGED <<batches, task, sem, outcome, batch_results>>
              ELSE /\ pc' = "gather"
                   /\ batches' = Batches(texts)
                   /\ task' = [b \in DOMAIN Batches(texts) |-> "pending"]
                   /\ outcome' = [b \in DOMAIN Batches(texts) |-> NoOutcome]
                   /\ batch_results' = [b \in DOMAIN Batches(texts) |-> [done |-> FALSE, map |-> EmptyMap]]
                   /\ sem' = max_concurrent
                   /\ UNCHANGED translated_data
    /\ UNCHANGED <<data, completed, all_translations, requests>>
    /\ UNCHANGED appVars

\* translate_batch from "async with semaphore" to "await client.post"
Acquire(b) ==
    /\ pc = "gather"
    /\ task[b] = "pending"
    /\ sem > 0
    /\ sem' = sem - 1
    /\ task' = [task EXCEPT ![b] = "holding"]
    /\ requests' = requests + 1
    /\ UNCHANGED <<data, pc, chinese_texts, batches, outcome, batch_results,
                   completed, all_translations, translated_data>>
    /\ UNCHANGED appVars

\* Respond with the semaphore released by hand at the end of the try block
\* only, so that the except path keeps its slot
RespondLeak(b, o) ==
    /\ pc = "gather"
    /\ task[b] = "holding"
    /\ LET r == TranslateBatchResult(batches[b], o)
       IN  /\ task' = [task EXCEPT ![b] = IF r.raised THEN "raised" ELSE "done"]
           /\ batch_results' = [batch_results EXCEPT ![b] = [done |-> ~r.raised, map |-> r.map]]
    /\ outcome' = [outcome EXCEPT ![b] = o]
    /\ sem' = IF o.kind = "ok" THEN sem + 1 ELSE sem
    /\ completed' = Append(completed, b)
    /\ UNCHANGED <<data, pc, chinese_texts, batches, all_translations,
                   translated_data, requests>>
    /\ UNCHANGED appVars

\* translate_batch from the return of client.post to its own return: the
\* parse or the except clause, and the release of the semaphore
Respond(b, o) ==
    /\ pc = "gather"
    /\ task[b] = "holding"
    /\ LET r == TranslateBatchResult(batches[b], o)
       IN  /\ task' = [task EXCEPT ![b] = IF r.raised THEN "raised" ELSE "done"]
           /\ batch_results' = [batch_results EXCEPT ![b] = [done |-> ~r.raised, map |-> r.map]]
    /\ outcome' = [outcome EXCEPT ![b] = o]
    /\ sem' = sem + 1
    /\ completed' = Append(completed, b)
    /\ UNCHANGED <<data, pc, chinese_texts, batches, all_translations,
                   translated_data, requests>>
    /\ UNCHANGED appVars

\* asyncio.gather returns (all tasks done) or raises (a task raised); then the
\* merge of batch_translate and the rest of translate_json
GatherReturn ==
    /\ pc = "gather"
    /\ \/ \E b \in DOMAIN task : task[b] = "raised"
       \/ \A b \in DOMAIN task : task[b] = "done"
    /\ IF \E b \in DOMAIN task : task[b] = "raised"
       THEN /\ pc' = "raised"
            /\ UNCHANGED <<all_translations, translated_data>>
       ELSE /\ pc' = "done"
            /\ all_translations' = MergeResults(batch_results)
            /\ translated_data' = apply_translations(data, MergeResults(batch_results))
    /\ UNCHANGED <<data, chinese_texts, batches, task, sem, outcome, batch_results,
                   completed, requests>>
    /\ UNCHANGED appVars

Next ==
    \/ TranslateJson
    \/ \E b \in DOMAIN task : Acquire(b)
    \/ \E b \in DOMAIN task : \E o \in Outcomes : Respond(b, o)
    \/ GatherReturn

Spec == Init /\ [][Next]_vars

\* The fan-out and fan-in of batch_translate, over the list documents (the
\* batches do not depend on where in a document a unit was found).
\* Once batch_translate awaits asyncio.gather, the event loop runs every task
\* that is ready and every remote request returns or fails within its 90 s
\* timeout: a step of a task, or of the gather, that stays possible is taken.
FairSpec ==
    /\ InitWith(ListDocs)
    /\ [][Next]_vars
    /\ WF_vars(\E b \in DOMAIN task : Acquire(b))
    /\ WF_vars(\E b \in DOMAIN task : \E o \in Outcomes : Respond(b, o))
    /\ WF_vars(GatherReturn)

(***************************************************************************)
(* batch_translate with more batches than the semaphore admits.  The tasks *)
(* differ only in their batch, so the state keeps how many of them are at  *)
(* each position: task = [pending, holding, done], the numbers of tasks    *)
(* waiting in "async with semaphore", holding it with a request in flight, *)
(* and returned.                                                           *)
(***************************************************************************)

\* most batches of one batch_translate call in SemSpec
MaxSemBatches == 34

SemInit ==
    /\ data = NoDoc
    /\ pc = "gather"
    /\ chinese_texts = <<>>
    /\ batches = <<>>
    /\ \E n \in 1..MaxSemBatches : task = [pending |-> n, holding |-> 0, done |-> 0]
    /\ sem = max_concurrent
    /\ outcome = <<>>
    /\ batch_results = <<>>
    /\ completed = <<>>
    /\ all_translations = EmptyMap
    /\ translated_data = NoDoc
    /\ requests = 0
    /\ AppInit

\* a semaphore whose acquire does not wait for a free slot
SemAcquireNoWait ==
    /\ pc = "gather"
    /\ task.pending > 0
    /\ sem' = sem - 1
    /\ task' = [task EXCEPT !.pending = @ - 1, !.holding = @ + 1]
    /\ requests' = requests + 1
    /\ UNCHANGED <<data, pc, chinese_texts, batches, outcome, batch_results,
                   completed, all_translations, translated_data>>
    /\ UNCHANGED appVars

\* one waiting task enters "async with semaphore" and issues its request
SemAcquire ==
    /\ pc = "gather"
    /\ task.pending > 0
    /\ sem > 0
    /\ sem' = sem - 1
    /\ task' = [task EXCEPT !.pending = @ - 1, !.holding = @ + 1]
    /\ requests' = requests + 1
    /\ UNCHANGED <<data, pc, chinese_texts, batches, outcome, batch_results,
                   completed, all_translations, translated_data>>
    /\ UNCHANGED appVars

\* one request returns or fails; its task leaves "async with semaphore" on
\* the return of the try block or of the except clause
SemRespond ==
    /\ pc = "gather"
    /\ task.holding > 0
    /\ sem' = sem + 1
    /\ task' = [task EXCEPT !.holding = @ - 1, !.done = @ + 1]
    /\ UNCHANGED <<data, pc, chinese_texts, batches, outcome, batch_results,
                   completed, all_translations, translated_data, requests>>
    /\ UNCHANGED appVars

\* asyncio.gather returns
SemGatherReturn ==
    /\ pc = "gather"
    /\ task.pending = 0
    /\ task.holding = 0
    /\ pc' = "done"
    /\ UNCHANGED <<data, chinese_texts, batches, task, sem, outcome, batch_results,
                   completed, all_translations, translated_data, requests>>
    /\ UNCHANGED appVars

SemNext == SemAcquire \/ SemRespond \/ SemGatherReturn

SemSpec == SemInit /\ [][SemNext]_vars

(***************************************************************************)
(* The web application: the verification code and the verified status of   *)
(* EmailService in Redis, and the gate of calculate_astrology.            *)
(***************************************************************************)

\* most requests of calculate_astrology that pass the gate
MaxPassed == 2

Emails == {"a@x.com", "b@x.com"}

Codes == {"123456", "654321"}

BirthDates == {"1990-01-01", "1990-13-01"}

UserInfos == [email : Emails, birth_date : BirthDates]

\* what the astrology API and the response validation give for one request:
\* whether the API answered with valid preview and full results (which are
\* then translated), and whether AstrologyApiResponseView.model_validate
\* accepts the formatted response
ServiceOutcomes == [results : BOOLEAN, valid : BOOLEAN]

\* f"{self._VCODE_PREFIX}{email}" and f"{self._VERIFIED_PREFIX}{email}"
VcodeKey(email) == <<"vcode:", email>>
VerifiedKey(email) == <<"verified:", email>>

\* redis DEL, and the expiry of a key
Del(m, k) == [u \in (DOMAIN m) \ {k} |-> m[u]]

\* a Python str of the given length, as far as tuple unpacking sees it
PyStr(n) == [t |-> "str", len |-> n]

\* "success, message = value": unpacking needs exactly two items
UnpackTwo(value) == value.len = 2

\* EmailService.verify_code: [raised, returned, redis]
\* a verify_code that deletes the stored code when the codes differ
VerifyCodeBurning(email, code) ==
    IF VcodeKey(email) \notin DOMAIN redis
    THEN [raised |-> "VerificationCodeExpiredError", returned |-> PyStr(0), redis |-> redis]
    ELSE IF redis[VcodeKey(email)] # code
    THEN [raised |-> "VerificationCodeInvalidError", returned |-> PyStr(0),
          redis |-> Del(redis, VcodeKey(email))]
    ELSE [raised |-> "none", returned |-> PyStr(27),
          redis |-> Put(Del(redis, VcodeKey(email)), VerifiedKey(email), "true")]

verify_code(email, code) ==
    IF VcodeKey(email) \notin DOMAIN redis
    THEN [raised |-> "VerificationCodeExpiredError", returned |-> PyStr(0), redis |-> redis]
    ELSE IF redis[VcodeKey(email)] # code
    THEN [raised |-> "VerificationCodeInvalidError", returned |-> PyStr(0), redis |-> redis]
    ELSE [raised |-> "none", returned |-> PyStr(27),
          redis |-> Put(Del(redis, VcodeKey(email)), VerifiedKey(email), "true")]

\* a verified status that every email is taken to have
IsVerifiedAlways(email) == TRUE

\* EmailService.is_email_recently_verified
is_email_recently_verified(email) == VerifiedKey(email) \in DOMAIN redis

\* CacheManager.generate_astrology_cache_key: a digest of the request fields
generate_astrology_cache_key(user_info) ==
    <<"astrology:calculate", user_info.email, user_info.birth_date>>

\* datetime.strptime(birth_date, "%Y-%m-%d") of create_record accepts the date
ValidDate(birth_date) == birth_date = "1990-01-01"

\* POST /send-verification: the provider sends the code or fails; the code is
\* stored only when it was sent; the handler then unpacks the returned str
SendVerificationCode(email, code, sent) ==
    /\ redis' = IF sent THEN Put(redis, VcodeKey(email), code) ELSE redis
    /\ response' = [handler |-> "send_verification_code", email |-> email,
                    status |-> IF sent /\ UnpackTwo(PyStr(35)) THEN 200 ELSE 500]
    /\ UNCHANGED <<verify_succeeded, records, cache, calls>>
    /\ UNCHANGED <<translateVars, heap, storeVars>>

\* POST /verify-email-first
VerifyEmailFirst(email, code) ==
    /\ LET r == verify_code(email, code)
       IN  /\ redis' = r.redis
           /\ verify_succeeded' = IF r.raised = "none" THEN verify_succeeded \cup {email}
                                  ELSE verify_succeeded
           /\ response' = [handler |-> "verify_email_first", email |-> email,
                           status |-> IF r.raised = "none" /\ UnpackTwo(r.returned)
                                      THEN 200 ELSE 500]
    /\ UNCHANGED <<records, cache, calls>>
    /\ UNCHANGED <<translateVars, heap, storeVars>>

\* a Redis key of EmailService reaches the end of its ex= lifetime
Expire(k) ==
    /\ k \in DOMAIN redis
    /\ redis' = Del(redis, k)
    /\ UNCHANGED <<verify_succeeded, records, cache, calls, response>>
    /\ UNCHANGED <<translateVars, heap, storeVars>>

\* a key of the astrology cache reaches CACHE_TTL
CacheExpire(k) ==
    /\ k \in DOMAIN cache
    /\ cache' = Del(cache, k)
    /\ UNCHANGED <<redis, verify_succeeded, records, calls, response>>
    /\ UNCHANGED <<translateVars, heap, storeVars>>

\* POST /astrology/calculate
CalculateAstrology(user_info, o) ==
    /\ IF ~is_email_recently_verified(user_info.email)
       THEN /\ response' = [handler |-> "calculate_astrology", email |-> user_info.email,
                            status |-> 400]
            /\ UNCHANGED <<records, cache, calls>>
       ELSE /\ calls.cache_get < MaxPassed
            /\ LET cache_key == generate_astrology_cache_key(user_info)
               IN  IF cache_key \in DOMAIN cache
                   THEN /\ calls' = [calls EXCEPT !.cache_get = @ + 1]
                        /\ response' = [handler |-> "calculate_astrology",
                                        email |-> user_info.email, status |-> 200]
                        /\ UNCHANGED <<records, cache>>
                   ELSE IF ~ValidDate(user_info.birth_date)
                   THEN /\ calls' = [calls EXCEPT !.cache_get = @ + 1]
                        /\ response' = [handler |-> "calculate_astrology",
                                        email |-> user_info.email, status |-> 500]
                        /\ UNCHANGED <<records, cache>>
                   ELSE /\ records' = Append(records, [id |-> Len(records) + 1,
                                                       email |-> user_info.email])
                        /\ calls' = [calls EXCEPT
                               !.cache_get = @ + 1,
                               !.astrology = @ + 2,
                               !.translation = @ + (IF o.results THEN 2 ELSE 0),
                               !.shopify = @ + 1,
                               !.cache_set = @ + (IF o.valid THEN 1 ELSE 0)]
                        /\ cache' = IF o.valid
                                    THEN Put(cache, cache_key, [record_id |-> Len(records) + 1])
                                    ELSE cache
                        /\ response' = [handler |-> "calculate_astrology",
                                        email |-> user_info.email,
                                        status |-> IF o.valid THEN 200 ELSE 500]
    /\ UNCHANGED <<redis, verify_succeeded>>
    /\ UNCHANGED <<translateVars, heap, storeVars>>

\* the translation variables while the web application is looked at alone
GateInit ==
    /\ data = NoDoc
    /\ pc = "done"
    /\ chinese_texts = <<>>
    /\ batches = <<>>
    /\ task = <<>>
    /\ sem = 0
    /\ outcome = <<>>
    /\ batch_results = <<>>
    /\ completed = <<>>
    /\ all_translations = EmptyMap
    /\ translated_data = NoDoc
    /\ requests = 0
    /\ AppInit

GateNext ==
    \/ \E email \in Emails : \E code \in Codes : \E sent \in BOOLEAN :
          SendVerificationCode(email, code, sent)
    \/ \E email \in Emails : \E code \in Codes : VerifyEmailFirst(email, code)
    \/ \E k \in DOMAIN redis : Expire(k)
    \/ \E k \in DOMAIN cache : CacheExpire(k)
    \/ \E user_info \in UserInfos : \E o \in ServiceOutcomes : CalculateAstrology(user_info, o)

GateSpec == GateInit /\ [][GateNext]_vars

(***************************************************************************)
(* Scenario 1: translate_json of {"name": "张三", "note": "喜用神\n测试"}   *)
(* against a remote endpoint that knows the three units of the scenario.   *)
(***************************************************************************)

\* "张三", "喜用神", "测试" and "喜用神\n测试"
ZhangSan == <<24352, 19977>>
XiYongShen == <<21916, 29992, 31070>>
CeShi == <<27979, 35797>>
XiYongShenCeShi == XiYongShen \o <<Ch.nl>> \o CeShi

\* "San Zhang", "Favorable Element", "Test"
SanZhang == <<83, 97, 110, 32, 90, 104, 97, 110, 103>>
FavorableElement == <<70, 97, 118, 111, 114, 97, 98, 108, 101, 32, 69, 108, 101, 109, 101, 110, 116>>
Test == <<84, 101, 115, 116>>

Scenario1Doc ==
    Dict(<<[k |-> <<110, 97, 109, 101>>, v |-> Str(ZhangSan)],
           [k |-> <<110, 111, 116, 101>>, v |-> Str(XiYongShenCeShi)]>>)

Scenario1Expected ==
    Dict(<<[k |-> <<110, 97, 109, 101>>, v |-> Str(SanZhang)],
           [k |-> <<110, 111, 116, 101>>, v |-> Str(FavorableElement \o <<Ch.nl>> \o Test)]>>)

\* what the remote endpoint of the scenario answers for one line
ScenarioDictionary ==
    [u \in {ZhangSan, XiYongShen, CeShi} |->
        IF u = ZhangSan THEN SanZhang ELSE IF u = XiYongShen THEN FavorableElement ELSE Test]

\* the remote translation of a unit, line by line
RemoteTranslate(u) ==
    Join([i \in 1..Len(Split(u)) |-> Get(ScenarioDictionary, Split(u)[i], Split(u)[i])])

\* the numbered lines "<i>. <translation>" for the units of a batch; with
\* namedOnly the remote answers the three units of the scenario only
RECURSIVE ResponseLines(_, _, _)
ResponseLines(texts, i, namedOnly) ==
    IF i > Len(texts) THEN <<>>
    ELSE IF namedOnly /\ texts[i] \notin DOMAIN ScenarioDictionary
    THEN ResponseLines(texts, i + 1, namedOnly)
    ELSE <<<<Ch.d0 + i, Ch.dot, Ch.sp>> \o RemoteTranslate(texts[i])>>
         \o ResponseLines(texts, i + 1, namedOnly)

\* what a request for a batch can give in the scenario
ScenarioOutcomes(texts) ==
    {[kind |-> "ok", text |-> Join(ResponseLines(texts, 1, namedOnly))] : namedOnly \in BOOLEAN}
    \cup {[kind |-> e, text |-> <<>>] : e \in Exceptions}

ScenarioNext ==
    \/ TranslateJson
    \/ \E b \in DOMAIN task : Acquire(b)
    \/ \E b \in DOMAIN task : \E o \in ScenarioOutcomes(batches[b]) : Respond(b, o)
    \/ GatherReturn

ScenarioSpec == InitWith({Scenario1Doc}) /\ [][ScenarioNext]_vars

(***************************************************************************)
(* find_chinese_texts alone: translate_json up to its return or its first  *)
(* await, for each document.                                               *)
(***************************************************************************)

ExtractSpec == Init /\ [][TranslateJson]_vars

(***************************************************************************)
(* apply_translations alone: one call with a document and a map that need  *)
(* not come from batch_translate.                                          *)
(***************************************************************************)

\* most entries of a dict and most items of a list of a document given to
\* apply_translations
MaxApplyItems == 2

\* string leaves: those of LeafStrings and " 喜 \na ", a CJK line and a
\* non-CJK line that both carry blanks
ApplyLeafStrings == LeafStrings \cup {<<Ch.sp, Ch.xi, Ch.sp, Ch.nl, Ch.a, Ch.sp>>}

\* the values inside the containers
ApplyValues ==
    {Str(<<Ch.xi>>), Str(<<Ch.a>>), List(<<Str(<<Ch.sp, Ch.shen, Ch.sp>>)>>),
     Dict(<< [k |-> <<Ch.shen>>, v |-> Num(42)] >>)}

\* dicts: sequences of entries with distinct keys
ApplyDicts ==
    {Dict(entries) :
        entries \in {e \in SeqsUpTo([k : KeyStrings, v : ApplyValues], MaxApplyItems) :
                        \A i, j \in 1..Len(e) : i # j => e[i].k # e[j].k}}

ApplyDocs ==
    {Str(s) : s \in ApplyLeafStrings} \cup {Num(42)}
        \cup {List(items) : items \in SeqsUpTo(ApplyValues, MaxApplyItems)}
        \cup ApplyDicts

\* the keys a map can hold: "喜", "神", "a" and "喜\n神"
MapKeys == {<<Ch.xi>>, <<Ch.shen>>, <<Ch.a>>, <<Ch.xi, Ch.nl, Ch.shen>>}

\* the maps: each key absent, mapped to "J", or mapped to itself (as the
\* fallback of translate_batch does)
ApplyMaps ==
    UNION {[K -> {<<Ch.J>>, <<>>}] : K \in SUBSET MapKeys}

\* the map with the entries marked <<>> made identity entries
WithIdentity(mp) == [u \in DOMAIN mp |-> IF mp[u] = <<>> THEN u ELSE mp[u]]

ApplyInit ==
    /\ data \in ApplyDocs
    /\ \E mp \in ApplyMaps : all_translations = WithIdentity(mp)
    /\ pc = "start"
    /\ chinese_texts = <<>>
    /\ batches = <<>>
    /\ task = <<>>
    /\ sem = 0
    /\ outcome = <<>>
    /\ batch_results = <<>>
    /\ completed = <<>>
    /\ translated_data = NoDoc
    /\ requests = 0
    /\ AppInit

\* translated_data = self.apply_translations(data, translations)
ApplyTranslations ==
    /\ pc = "start"
    /\ pc' = "done"
    /\ translated_data' = apply_translations(data, all_translations)
    /\ UNCHANGED <<data, chinese_texts, batches, task, sem, outcome, batch_results,
                   completed, all_translations, requests>>
    /\ UNCHANGED appVars

ApplySpec == ApplyInit /\ [][ApplyTranslations]_vars

(***************************************************************************)
(* apply_translations on objects: the dicts and lists of the argument, the *)
(* map and the containers the call creates live on a heap and are named by *)
(* their position in it, so that a write to an argument and a container    *)
(* shared between argument and result can be told.                         *)
(***************************************************************************)

Ref(id) == [t |-> "ref", id |-> id]

\* the dict object that is the argument translations
MapObject(mp) == [t |-> "map", m |-> mp]

\* a document laid out on the heap, every dict and list an object of its own
RECURSIVE Alloc(_, _)
RECURSIVE AllocEntries(_, _)
RECURSIVE AllocItems(_, _)
Alloc(h, x) ==
    IF x.t = "dict"
    THEN LET r == AllocEntries(h, x.entries)
         IN  [heap |-> Append(r.heap, Dict(r.vals)), val |-> Ref(Len(r.heap) + 1)]
    ELSE IF x.t = "list"
    THEN LET r == AllocItems(h, x.items)
         IN  [heap |-> Append(r.heap, List(r.vals)), val |-> Ref(Len(r.heap) + 1)]
    ELSE [heap |-> h, val |-> x]

AllocEntries(h, entries) ==
    IF entries = <<>> THEN [heap |-> h, vals |-> <<>>]
    ELSE LET r1 == Alloc(h, entries[1].v)
             r2 == AllocEntries(r1.heap, Tail(entries))
         IN  [heap |-> r2.heap, vals |-> <<[k |-> entries[1].k, v |-> r1.val]>> \o r2.vals]

AllocItems(h, items) ==
    IF items = <<>> THEN [heap |-> h, vals |-> <<>>]
    ELSE LET r1 == Alloc(h, items[1])
             r2 == AllocItems(r1.heap, Tail(items))
         IN  [heap |-> r2.heap, vals |-> <<r1.val>> \o r2.vals]

\* a document in which one list object is the value of two keys
SharedHeap(mp) ==
    << MapObject(mp),
       List(<<Str(<<Ch.shen>>)>>),
       Dict(<< [k |-> <<Ch.a>>, v |-> Ref(2)], [k |-> <<Ch.sp, Ch.xi>>, v |-> Ref(2)] >>) >>

RECURSIVE ApplyObject(_, _, _)
RECURSIVE ApplyDictObject(_, _, _, _)
RECURSIVE ApplyListItems(_, _, _)

\* for k, v in obj.items(): result[new_key] = self.apply_translations(v, translations)
\* with result the dict object at heap position result
ApplyDictObject(h, entries, translations, result) ==
    IF entries = <<>> THEN h
    ELSE LET r == ApplyObject(h, entries[1].v, translations)
             new_key == NewKey(entries[1].k, r.heap[translations.id].m)
         IN  ApplyDictObject([r.heap EXCEPT ![result].entries = SetItem(@, new_key, r.val)],
                             Tail(entries), translations, result)

\* the items of [self.apply_translations(item, translations) for item in obj]
ApplyListItems(h, items, translations) ==
    IF items = <<>> THEN [heap |-> h, vals |-> <<>>]
    ELSE LET r1 == ApplyObject(h, items[1], translations)
             r2 == ApplyListItems(r1.heap, Tail(items), translations)
         IN  [heap |-> r2.heap, vals |-> <<r1.val>> \o r2.vals]

\* an apply_translations that stores the translated items back into the list
\* it was given and returns that list
ApplyObjectInPlace(h, obj, translations) ==
    IF obj.t = "ref" /\ h[obj.id].t = "dict"
    THEN [heap |-> ApplyDictObject(Append(h, Dict(<<>>)), h[obj.id].entries,
                                   translations, Len(h) + 1),
          val |-> Ref(Len(h) + 1)]
    ELSE IF obj.t = "ref" /\ h[obj.id].t = "list"
    THEN LET r == ApplyListItems(h, h[obj.id].items, translations)
         IN  [heap |-> [r.heap EXCEPT ![obj.id] = List(r.vals)], val |-> obj]
    ELSE IF obj.t = "str" /\ has_chinese(obj.s)
    THEN [heap |-> h, val |-> Str(ApplyToString(obj.s, h[translations.id].m))]
    ELSE [heap |-> h, val |-> obj]

\* apply_translations on the heap h: [heap, val], the heap after the call
\* and the value returned.  "result = {}" creates the new dict before the
\* loop, the list comprehension creates the new list after its items.
ApplyObject(h, obj, translations) ==
    IF obj.t = "ref" /\ h[obj.id].t = "dict"
    THEN [heap |-> ApplyDictObject(Append(h, Dict(<<>>)), h[obj.id].entries,
                                   translations, Len(h) + 1),
          val |-> Ref(Len(h) + 1)]
    ELSE IF obj.t = "ref" /\ h[obj.id].t = "list"
    THEN LET r == ApplyListItems(h, h[obj.id].items, translations)
         IN  [heap |-> Append(r.heap, List(r.vals)), val |-> Ref(Len(r.heap) + 1)]
    ELSE IF obj.t = "str" /\ has_chinese(obj.s)
    THEN [heap |-> h, val |-> Str(ApplyToString(obj.s, h[translations.id].m))]
    ELSE [heap |-> h, val |-> obj]

\* the call apply_translations(data, all_translations) about to be made: the
\* map is object 1, the document follows it
HeapInit ==
    /\ \E mp \in ApplyMaps :
          \/ \E doc \in ApplyDocs :
                /\ heap = Alloc(<<MapObject(WithIdentity(mp))>>, doc).heap
                /\ data = Alloc(<<MapObject(WithIdentity(mp))>>, doc).val
          \/ /\ heap = SharedHeap(WithIdentity(mp))
             /\ data = Ref(3)
    /\ all_translations = Ref(1)
    /\ pc = "start"
    /\ chinese_texts = <<>>
    /\ batches = <<>>
    /\ task = <<>>
    /\ sem = 0
    /\ outcome = <<>>
    /\ batch_results = <<>>
    /\ completed = <<>>
    /\ translated_data = NoDoc
    /\ requests = 0
    /\ redis = EmptyMap
    /\ verify_succeeded = {}
    /\ records = <<>>
    /\ cache = EmptyMap
    /\ calls = NoCalls
    /\ response = NoResponse
    /\ StoreInit

\* the call of apply_translations
ApplyOnHeap ==
    /\ pc = "start"
    /\ pc' = "done"
    /\ heap' = ApplyObject(heap, data, all_translations).heap
    /\ translated_data' = ApplyObject(heap, data, all_translations).val
    /\ UNCHANGED <<data, chinese_texts, batches, task, sem, outcome, batch_results,
                   completed, all_translations, requests>>
    /\ UNCHANGED <<redis, verify_succeeded, records, cache, calls, response, storeVars>>

HeapSpec == HeapInit /\ [][ApplyOnHeap]_vars

(***************************************************************************)
(* extract_and_translate_astrology_result, the entry point the astrology   *)
(* service calls, up to its return or its first await.                     *)
(***************************************************************************)

\* the value None
PyNone == [t |-> "null"]

\* "not astrology_data": an empty dict, an empty list, an empty string, 0
Falsy(x) ==
    \/ x.t = "dict" /\ x.entries = <<>>
    \/ x.t = "list" /\ x.items = <<>>
    \/ x.t = "str" /\ x.s = <<>>
    \/ x.t = "num" /\ x.n = 0

\* if not astrology_data: return None; return await self.translate_json(astrology_data)
ExtractAndTranslate ==
    IF Falsy(data)
    THEN /\ pc = "start"
         /\ pc' = "done"
         /\ translated_data' = PyNone
         /\ UNCHANGED <<data, chinese_texts, batches, task, sem, outcome, batch_results,
                        completed, all_translations, requests>>
         /\ UNCHANGED appVars
    ELSE TranslateJson

EntrySpec == Init /\ [][ExtractAndTranslate]_vars

(***************************************************************************)
(* verify_code at the granularity of its Redis commands: the GET, then the *)
(* pipeline of DELETE and SET.  Redis is shared by every process that      *)
(* serves the application, so two calls can interleave between the two.    *)
(***************************************************************************)

\* the calls of verify_code that can be in progress together
MaxCallers == 2

Callers == 1..MaxCallers

NoCode == "nil"

IdleCall == [pc |-> "idle", email |-> "", code |-> "", stored_code |-> NoCode, result |-> "none"]

VerifyInit ==
    /\ data = NoDoc
    /\ pc = "done"
    /\ chinese_texts = <<>>
    /\ batches = <<>>
    /\ task = <<>>
    /\ sem = 0
    /\ outcome = <<>>
    /\ batch_results = <<>>
    /\ completed = <<>>
    /\ all_translations = EmptyMap
    /\ translated_data = NoDoc
    /\ requests = 0
    /\ redis = EmptyMap
    /\ verify_succeeded = {}
    /\ records = <<>>
    /\ cache = EmptyMap
    /\ calls = NoCalls
    /\ response = NoResponse
    /\ heap = <<>>
    /\ callers = [call |-> [p \in Callers |-> IdleCall],
                  successes |-> [e \in Emails |-> 0]]
    /\ products = <<>>
    /\ tokens = EmptyMap
    /\ now = 0

\* self.redis.set(redis_key, verification_code, ex=...): a new code is stored;
\* successes counts the verify_code calls that succeeded since
StoreCode(email, code) ==
    /\ redis' = Put(redis, VcodeKey(email), code)
    /\ callers' = [callers EXCEPT !.successes[email] = 0]
    /\ UNCHANGED <<verify_succeeded, records, cache, calls, response, heap,
                   products, tokens, now>>
    /\ UNCHANGED translateVars

\* a key reaches the end of its ex= lifetime
VerifyExpire(k) ==
    /\ k \in DOMAIN redis
    /\ redis' = Del(redis, k)
    /\ UNCHANGED <<verify_succeeded, records, cache, calls, response, heap, storeVars>>
    /\ UNCHANGED translateVars

\* verify_code up to stored_code = self.redis.get(redis_key)
VerifyGet(p, email, code) ==
    /\ callers.call[p].pc = "idle"
    /\ callers' = [callers EXCEPT !.call[p] =
           [pc |-> "got", email |-> email, code |-> code,
            stored_code |-> Get(redis, VcodeKey(email), NoCode), result |-> "none"]]
    /\ UNCHANGED <<redis, verify_succeeded, records, cache, calls, response, heap,
                   products, tokens, now>>
    /\ UNCHANGED translateVars

\* verify_code from the tests of stored_code to its return: the raises, or
\* pipe.delete, pipe.set and pipe.execute
VerifyFinish(p) ==
    /\ callers.call[p].pc = "got"
    /\ LET c == callers.call[p]
       IN  IF c.stored_code = NoCode
           THEN /\ callers' = [callers EXCEPT !.call[p] =
                       [IdleCall EXCEPT !.result = "VerificationCodeExpiredError"]]
                /\ UNCHANGED <<redis, verify_succeeded>>
           ELSE IF c.stored_code # c.code
           THEN /\ callers' = [callers EXCEPT !.call[p] =
                       [IdleCall EXCEPT !.result = "VerificationCodeInvalidError"]]
                /\ UNCHANGED <<redis, verify_succeeded>>
           ELSE /\ redis' = Put(Del(redis, VcodeKey(c.email)), VerifiedKey(c.email), "true")
                /\ verify_succeeded' = verify_succeeded \cup {c.email}
                /\ callers' = [callers EXCEPT
                       !.call[p] = [IdleCall EXCEPT !.result = "Email verified successfully"],
                       !.successes[c.email] = @ + 1]
    /\ UNCHANGED <<records, cache, calls, response, heap, products, tokens, now>>
    /\ UNCHANGED translateVars

VerifyNext ==
    \/ \E email \in Emails : \E code \in Codes : StoreCode(email, code)
    \/ \E k \in DOMAIN redis : VerifyExpire(k)
    \/ \E p \in Callers : \E email \in Emails : \E code \in Codes : VerifyGet(p, email, code)
    \/ \E p \in Callers : VerifyFinish(p)

VerifySpec == VerifyInit /\ [][VerifyNext]_vars

(***************************************************************************)
(* extract_record_id_from_order (shopify_service.py).  An order is a       *)
(* record of the fields the function reads; a str is a sequence of code    *)
(* points, and the note is [t |-> "str", s |-> ...] or None, which is what *)
(* Shopify sends for an order without a note.                              *)
(***************************************************************************)

\* "record_id"
RecordIdName == <<114, 101, 99, 111, 114, 100, 95, 105, 100>>

\* "record id"
RecordIdSpaced == <<114, 101, 99, 111, 114, 100, 32, 105, 100>>

\* "Record ID:"
RecordIdLabel == <<82, 101, 99, 111, 114, 100, 32, 73, 68, 58>>

\* "record_"
RecordPrefix == <<114, 101, 99, 111, 114, 100, 95>>

\* ","
Comma == <<44>>

\* str.lower() on the ASCII letters
Lower(s) == [i \in 1..Len(s) |-> IF s[i] \in 65..90 THEN s[i] + 32 ELSE s[i]]

\* the positions at which sub occurs in s
Occurrences(s, sub) ==
    {i \in 1..(Len(s) - Len(sub) + 1) : SubSeq(s, i, i + Len(sub) - 1) = sub}

\* sub in s
Contains(s, sub) == Occurrences(s, sub) # {}

\* the least element of a non-empty set of positions
First(ps) == CHOOSE i \in ps : \A j \in ps : i <= j

\* s.split(sep)
RECURSIVE SplitOn(_, _)
SplitOn(s, sep) ==
    IF ~Contains(s, sep) THEN <<s>>
    ELSE LET p == First(Occurrences(s, sep))
         IN  <<SubSeq(s, 1, p - 1)>> \o SplitOn(SubSeq(s, p + Len(sep), Len(s)), sep)

\* s.split(): the runs of characters that are not whitespace
RECURSIVE Words(_)
Words(s) ==
    LET ink == {i \in 1..Len(s) : ~IsSpace(s[i])}
    IN  IF ink = {} THEN <<>>
        ELSE LET lo == First(ink)
                 sps == {i \in lo..Len(s) : IsSpace(s[i])}
                 hi == IF sps = {} THEN Len(s) ELSE First(sps) - 1
             IN  <<SubSeq(s, lo, hi)>> \o Words(SubSeq(s, hi + 1, Len(s)))

\* s.replace(old, "")
RECURSIVE RemoveAll(_, _)
RemoveAll(s, old) ==
    IF ~Contains(s, old) THEN s
    ELSE LET p == First(Occurrences(s, old))
         IN  SubSeq(s, 1, p - 1) \o RemoveAll(SubSeq(s, p + Len(old), Len(s)), old)

\* s.startswith(prefix)
StartsWith(s, prefix) == Len(s) >= Len(prefix) /\ SubSeq(s, 1, Len(prefix)) = prefix

\* re.search(r'record_(\d+)', s): group 1 of the first match, <<>> without one
RegexRecordDigits(s) ==
    LET ps == {p \in Occurrences(s, RecordPrefix) :
                  p + Len(RecordPrefix) <= Len(s) /\ IsDigit(s[p + Len(RecordPrefix)])}
    IN  IF ps = {} THEN <<>>
        ELSE LET lo == First(ps) + Len(RecordPrefix)
                 nd == {i \in lo..Len(s) : ~IsDigit(s[i])}
                 hi == IF nd = {} THEN Len(s) ELSE First(nd) - 1
             IN  SubSeq(s, lo, hi)

\* int(value) of a str: surrounding whitespace, a sign, decimal digits with
\* single underscores between them; ValueError otherwise
PyInt(value) ==
    LET t == Strip(value)
        signed == t # <<>> /\ t[1] \in {43, 45}
        body == IF signed THEN Tail(t) ELSE t
        digits == SelectSeq(body, IsDigit)
        valid == /\ body # <<>>
                 /\ \A i \in 1..Len(body) : IsDigit(body[i]) \/ body[i] = 95
                 /\ IsDigit(body[1])
                 /\ IsDigit(body[Len(body)])
                 /\ \A i \in 1..(Len(body) - 1) : ~(body[i] = 95 /\ body[i + 1] = 95)
    IN  IF ~valid THEN [raised |-> "ValueError", n |-> 0]
        ELSE [raised |-> "none",
              n |-> IF signed /\ t[1] = 45 THEN 0 - IntOf(digits) ELSE IntOf(digits)]

\* the value of the first entry of a list of name/value pairs whose lowered
\* name is one of names (the loop ends at that entry), otherwise cur
FirstNamed(pairs, names, cur) ==
    LET hits == {i \in 1..Len(pairs) : Lower(pairs[i].name) \in names}
    IN  IF hits = {} THEN cur ELSE pairs[First(hits)].value

\* step 1: the loop over line_items; record_id keeps the value of a matching
\* property and the loop ends at the first item that leaves it non-empty
RECURSIVE LineItemsId(_, _)
LineItemsId(line_items, record_id) ==
    IF line_items = <<>> THEN record_id
    ELSE LET found == FirstNamed(Head(line_items).properties,
                                 {RecordIdName, RecordIdSpaced}, record_id)
         IN  IF found # <<>> THEN found ELSE LineItemsId(Tail(line_items), found)

\* step 3: the order note
NoteId(note) ==
    IF note.t # "str" THEN [raised |-> "TypeError", record_id |-> <<>>]
    ELSE IF ~Contains(note.s, RecordIdLabel) THEN [raised |-> "none", record_id |-> <<>>]
    ELSE LET words == Words(Strip(SplitOn(note.s, RecordIdLabel)[2]))
         IN  IF words = <<>> THEN [raised |-> "IndexError", record_id |-> <<>>]
             ELSE [raised |-> "none", record_id |-> words[1]]

\* step 4: the first tag that starts with record_, without every record_
TagsId(tags) ==
    IF ~Contains(tags, RecordPrefix) THEN <<>>
    ELSE LET parts == SplitOn(tags, Comma)
             hits == {i \in 1..Len(parts) : StartsWith(Strip(parts[i]), RecordPrefix)}
         IN  IF hits = {} THEN <<>>
             ELSE RemoveAll(Strip(parts[First(hits)]), RecordPrefix)

\* the body of the try block: the seven steps in order, then int(record_id)
ExtractSteps(order_data) ==
    LET s1 == LineItemsId(order_data.line_items, <<>>)
        s2 == IF s1 # <<>> THEN s1
              ELSE FirstNamed(order_data.note_attributes, {RecordIdName}, s1)
        s3 == IF s2 # <<>> THEN [raised |-> "none", record_id |-> s2]
              ELSE NoteId(order_data.note)
        s4 == IF s3.record_id # <<>> THEN s3.record_id ELSE TagsId(order_data.tags)
        s5 == IF s4 # <<>> THEN s4
              ELSE Get(order_data.cart_attributes, RecordIdName, <<>>)
        s6 == IF s5 # <<>> THEN s5
              ELSE IF Contains(order_data.customer_note, RecordPrefix)
                   THEN RegexRecordDigits(order_data.customer_note)
                   ELSE s5
        s7 == IF s6 # <<>> THEN s6
              ELSE FirstNamed(order_data.order_attributes, {RecordIdName}, s6)
    IN  IF s3.raised # "none" THEN [raised |-> s3.raised, returned |-> PyNone]
        ELSE IF s7 = <<>> THEN [raised |-> "none", returned |-> PyNone]
        ELSE IF PyInt(s7).raised # "none"
             THEN [raised |-> PyInt(s7).raised, returned |-> PyNone]
        ELSE [raised |-> "none", returned |-> [t |-> "num", n |-> PyInt(s7).n]]

\* try: ... except Exception: return None
extract_record_id_from_order(order_data) ==
    [raised |-> "none", returned |-> ExtractSteps(order_data).returned]

\* a name/value pair of a property or attribute list
Pair(name, value) == [name |-> name, value |-> value]

\* a line item with its properties
Item(properties) == [properties |-> properties]

\* the line_items of the orders: no property; 'Record ID' = '1'; an empty
\* record_id before 'record id' = '1' in one item; an empty record_id in
\* the first item and record_id = '1' in the second; record_id = 'x'
LineItemsInputs ==
    { <<>>,
      <<Item(<<Pair(<<82, 101, 99, 111, 114, 100, 32, 73, 68>>, <<49>>)>>)>>,
      <<Item(<<Pair(RecordIdName, <<>>), Pair(RecordIdSpaced, <<49>>)>>)>>,
      <<Item(<<Pair(RecordIdName, <<>>)>>),
        Item(<<Pair(<<99, 111, 108, 111, 114>>, <<120>>), Pair(RecordIdName, <<49>>)>>)>>,
      <<Item(<<Pair(RecordIdName, <<120>>)>>)>> }

NoteAttributesInputs ==
    { <<>>,
      <<Pair(RecordIdName, <<50>>)>>,
      <<Pair(RecordIdSpaced, <<50>>)>>,
      <<Pair(RecordIdName, <<>>), Pair(RecordIdName, <<50>>)>> }

\* None, '', 'Record ID: 3 x', 'Record ID:', 'gift'
NoteInputs ==
    { PyNone, Str(<<>>), Str(<<82, 101, 99, 111, 114, 100, 32, 73, 68, 58, 32, 51, 32, 120>>), Str(RecordIdLabel), Str(<<103, 105, 102, 116>>) }

\* '', 'vip, record_4', 'record_,record_4', 'vip'
TagsInputs == { <<>>, <<118, 105, 112, 44, 32, 114, 101, 99, 111, 114, 100, 95, 52>>, <<114, 101, 99, 111, 114, 100, 95, 44, 114, 101, 99, 111, 114, 100, 95, 52>>, <<118, 105, 112>> }

CartAttributesInputs ==
    { EmptyMap, Put(EmptyMap, RecordIdName, <<53>>), Put(EmptyMap, RecordIdName, <<>>) }

\* '', 'record_6x', 'record_x'
CustomerNoteInputs == { <<>>, <<114, 101, 99, 111, 114, 100, 95, 54, 120>>, <<114, 101, 99, 111, 114, 100, 95, 120>> }

OrderAttributesInputs == { <<>>, <<Pair(<<82, 101, 99, 111, 114, 100, 95, 73, 68>>, <<55>>)>> }

Orders ==
    [line_items : LineItemsInputs, note_attributes : NoteAttributesInputs,
     note : NoteInputs, tags : TagsInputs, cart_attributes : CartAttributesInputs,
     customer_note : CustomerNoteInputs, order_attributes : OrderAttributesInputs]

OrderInit ==
    /\ data \in Orders
    /\ pc = "start"
    /\ chinese_texts = <<>>
    /\ batches = <<>>
    /\ task = <<>>
    /\ sem = 0
    /\ outcome = <<>>
    /\ batch_results = <<>>
    /\ completed = <<>>
    /\ all_translations = EmptyMap
    /\ translated_data = NoDoc
    /\ requests = 0
    /\ AppInit

\* record_id = shopify_service.extract_record_id_from_order(webhook_data)
ExtractRecordId ==
    /\ pc = "start"
    /\ pc' = "done"
    /\ translated_data' = extract_record_id_from_order(data).returned
    /\ UNCHANGED <<data, chinese_texts, batches, task, sem, outcome, batch_results,
                   completed, all_translations, requests>>
    /\ UNCHANGED appVars

OrderSpec == OrderInit /\ [][ExtractRecordId]_vars

(***************************************************************************)
(* shopify_webhook (api_routes.py): the deliveries of order webhooks to    *)
(* the records of the database.  calls counts, for each record and order,  *)
(* the commits that marked the record purchased for the order and the      *)
(* result emails attempted.                                                *)
(***************************************************************************)

\* the webhook deliveries of a run
MaxDeliveries == 3

OrderIds == {"1001", "1002"}

\* the record has no order yet: shopify_order_id is None
NoOrder == "None"

\* X-Shopify-Topic: two of the accepted topics and one that is not
Topics == {"orders/create", "orders/paid", "orders/updated"}

AcceptedTopics == {"orders/paid", "orders/fulfilled", "orders/create"}

RecordIds == {1, 2}

\* the tags of the delivered orders: none, record_1, record_2 and the id of
\* a record that does not exist
WebhookTags == { <<>>, <<114, 101, 99, 111, 114, 100, 95, 49>>, <<114, 101, 99, 111, 114, 100, 95, 50>>, <<114, 101, 99, 111, 114, 100, 95, 57>> }

WebhookEmails == {"", "a@x.com"}

WebhookOrders ==
    [id : OrderIds, email : WebhookEmails, tags : WebhookTags,
     line_items : {<<>>}, note_attributes : {<<>>}, note : {Str(<<>>)},
     cart_attributes : {EmptyMap}, customer_note : {<<>>}, order_attributes : {<<>>}]

PairsOfRecordAndOrder == RecordIds \X OrderIds

NoWebhookCalls ==
    [deliveries |-> 0,
     purchased |-> [ro \in PairsOfRecordAndOrder |-> 0],
     result_email |-> [ro \in PairsOfRecordAndOrder |-> 0]]

\* the records of the database, oldest first, none purchased
WebhookRecords ==
    { <<[id |-> 1, email |-> e1, is_purchased |-> FALSE, shopify_order_id |-> NoOrder],
        [id |-> 2, email |-> e2, is_purchased |-> FALSE, shopify_order_id |-> NoOrder]>> :
      e1 \in Emails, e2 \in Emails }

WebhookInit ==
    /\ data = NoDoc
    /\ pc = "done"
    /\ chinese_texts = <<>>
    /\ batches = <<>>
    /\ task = <<>>
    /\ sem = 0
    /\ outcome = <<>>
    /\ batch_results = <<>>
    /\ completed = <<>>
    /\ all_translations = EmptyMap
    /\ translated_data = NoDoc
    /\ requests = 0
    /\ redis = EmptyMap
    /\ verify_succeeded = {}
    /\ records \in WebhookRecords
    /\ cache = EmptyMap
    /\ calls = NoWebhookCalls
    /\ response = [handler |-> "shopify_webhook", record_id |-> 0, status |-> "none"]
    /\ heap = <<>>
    /\ StoreInit

\* .filter(email == customer_email, is_purchased == False)
\* .order_by(created_at.desc()).first(): the id of the record, 0 without one
LatestUnpurchased(customer_email) ==
    LET found == {i \in 1..Len(records) :
                     records[i].email = customer_email /\ ~records[i].is_purchased}
    IN  IF found = {} THEN 0
        ELSE records[CHOOSE i \in found : \A j \in found : j <= i].id

\* extract_record_id_from_order on every order a delivery can carry
ExtractedRecordId ==
    [order_data \in WebhookOrders |-> extract_record_id_from_order(order_data).returned]

\* the record id the handler settles on from what the extraction returned,
\* 0 when it identifies none
RecordIdOr(extracted, customer_email) ==
    IF extracted.t = "num" /\ extracted.n # 0 THEN extracted.n
    ELSE IF customer_email # "" THEN LatestUnpurchased(customer_email)
    ELSE 0

ResolveRecordId(webhook_data) ==
    RecordIdOr(ExtractedRecordId[webhook_data], webhook_data.email)

\* .filter(AstrologyRecord.id == record_id).first(): its index, 0 without one
RecordIndex(record_id) ==
    LET found == {i \in 1..Len(records) : records[i].id = record_id}
    IN  IF found = {} THEN 0 ELSE CHOOSE i \in found : TRUE

\* one delivery, from the record id the handler settled on: signature_ok is
\* the result of verify_webhook, committed that of db.commit(), rendered
\* whether the report was parsed and rendered so that
\* send_astrology_result_email is reached
HandleWebhook(webhook_topic, webhook_data, record_id, signature_ok, committed, rendered) ==
    /\ calls.deliveries < MaxDeliveries
    /\ LET i == RecordIndex(record_id)
           ro == <<record_id, webhook_data.id>>
           counted == [calls EXCEPT !.deliveries = @ + 1]
       IN  IF ~signature_ok
           THEN /\ response' = [handler |-> "shopify_webhook", record_id |-> 0, status |-> "500"]
                /\ records' = records
                /\ calls' = counted
           ELSE IF webhook_topic \notin AcceptedTopics
           THEN /\ response' = [handler |-> "shopify_webhook", record_id |-> 0,
                                status |-> "ignored"]
                /\ records' = records
                /\ calls' = counted
           ELSE IF record_id = 0 \/ i = 0
           THEN /\ response' = [handler |-> "shopify_webhook", record_id |-> record_id,
                                status |-> "success"]
                /\ records' = records
                /\ calls' = counted
           ELSE IF records[i].shopify_order_id = webhook_data.id
           THEN /\ response' = [handler |-> "shopify_webhook", record_id |-> record_id,
                                status |-> "already_processed_duplicate_webhook"]
                /\ records' = records
                /\ calls' = counted
           ELSE IF ~committed
           THEN /\ response' = [handler |-> "shopify_webhook", record_id |-> record_id,
                                status |-> "500"]
                /\ records' = records
                /\ calls' = counted
           ELSE /\ response' = [handler |-> "shopify_webhook", record_id |-> record_id,
                                status |-> "success"]
                /\ records' = [records EXCEPT ![i] =
                                   [@ EXCEPT !.is_purchased = TRUE,
                                             !.shopify_order_id = webhook_data.id]]
                /\ calls' = [counted EXCEPT
                                !.purchased[ro] = @ + 1,
                                !.result_email[ro] = IF rendered THEN @ + 1 ELSE @]
    /\ UNCHANGED <<redis, verify_succeeded, cache, heap, storeVars>>
    /\ UNCHANGED translateVars

\* POST /webhook/shopify
ShopifyWebhook(webhook_topic, webhook_data, signature_ok, committed, rendered) ==
    HandleWebhook(webhook_topic, webhook_data, ResolveRecordId(webhook_data),
                  signature_ok, committed, rendered)

WebhookNext ==
    \E webhook_data \in WebhookOrders :
        LET record_id == ResolveRecordId(webhook_data)
        IN  \E webhook_topic \in Topics : \E signature_ok \in BOOLEAN :
                \E committed \in BOOLEAN : \E rendered \in BOOLEAN :
                    HandleWebhook(webhook_topic, webhook_data, record_id,
                                  signature_ok, committed, rendered)

WebhookSpec == WebhookInit /\ [][WebhookNext]_vars

(***************************************************************************)
(* generate_preview_results, generate_full_results and                     *)
(* generate_english_translation (astrology_service.py) on one record.  A   *)
(* result field is None or the JSON text a call stored; the text carries   *)
(* the number of the call that produced it, so that two calls never store  *)
(* equal texts.                                                            *)
(***************************************************************************)

\* the calls of the three functions in a run
MaxGenerations == 5

\* a result field that was never written
NoResult == [call |-> 0]

\* json.dumps(...) of the result the call with this number obtained
ResultText(n) == [call |-> n]

\* what the astrology API, the validation and the translation give a call:
\* an exception, a result that fails the errcode / data test, a result
\* whose translation is empty or None, a result and its translation
ResultOutcomes == {"raised", "rejected", "untranslated", "ok"}

ResultInit ==
    /\ data = NoDoc
    /\ pc = "done"
    /\ chinese_texts = <<>>
    /\ batches = <<>>
    /\ task = <<>>
    /\ sem = 0
    /\ outcome = <<>>
    /\ batch_results = <<>>
    /\ completed = <<>>
    /\ all_translations = EmptyMap
    /\ translated_data = NoDoc
    /\ requests = 0
    /\ redis = EmptyMap
    /\ verify_succeeded = {}
    /\ records = <<[id |-> 1,
                    preview_result_zh |-> NoResult, preview_result_en |-> NoResult,
                    full_result_zh |-> NoResult, full_result_en |-> NoResult]>>
    /\ cache = EmptyMap
    /\ calls = [generated |-> 0]
    /\ response = NoResponse
    /\ heap = <<>>
    /\ StoreInit

\* a preview that is written although one is stored
PreviewNeverStored(record) == FALSE

\* if record.preview_result_zh: return
PreviewStored(record) == record.preview_result_zh # NoResult

\* if record.full_result_zh: return
FullStored(record) == record.full_result_zh # NoResult

\* if record.full_result_en or not record.full_result_zh: return
EnglishSkipped(record) ==
    record.full_result_en # NoResult \/ record.full_result_zh = NoResult

GeneratePreviewResults(o) ==
    /\ calls.generated < MaxGenerations
    /\ calls' = [generated |-> calls.generated + 1]
    /\ records' = IF ~PreviewStored(records[1]) /\ o = "ok"
                  THEN [records EXCEPT
                           ![1].preview_result_zh = ResultText(calls.generated + 1),
                           ![1].preview_result_en = ResultText(calls.generated + 1)]
                  ELSE records
    /\ response' = [handler |-> "generate_preview_results", email |-> "", status |-> 0]
    /\ UNCHANGED <<redis, verify_succeeded, cache, heap, storeVars>>
    /\ UNCHANGED translateVars

\* the translation is not part of this call, so its outcomes are an
\* exception, no valid result and a result
GenerateFullResults(o) ==
    /\ o # "untranslated"
    /\ calls.generated < MaxGenerations
    /\ calls' = [generated |-> calls.generated + 1]
    /\ records' = IF ~FullStored(records[1]) /\ o = "ok"
                  THEN [records EXCEPT
                           ![1].full_result_zh = ResultText(calls.generated + 1)]
                  ELSE records
    /\ response' = [handler |-> "generate_full_results", email |-> "", status |-> 0]
    /\ UNCHANGED <<redis, verify_succeeded, cache, heap, storeVars>>
    /\ UNCHANGED translateVars

\* the stored full_result_zh is translated, so the outcomes are an
\* exception, an empty translation and a translation
GenerateEnglishTranslation(o) ==
    /\ o # "rejected"
    /\ calls.generated < MaxGenerations
    /\ calls' = [generated |-> calls.generated + 1]
    /\ records' = IF ~EnglishSkipped(records[1]) /\ o = "ok"
                  THEN [records EXCEPT
                           ![1].full_result_en = ResultText(calls.generated + 1)]
                  ELSE records
    /\ response' = [handler |-> "generate_english_translation", email |-> "", status |-> 0]
    /\ UNCHANGED <<redis, verify_succeeded, cache, heap, storeVars>>
    /\ UNCHANGED translateVars

ResultNext ==
    \/ \E o \in ResultOutcomes : GeneratePreviewResults(o)
    \/ \E o \in ResultOutcomes : GenerateFullResults(o)
    \/ \E o \in ResultOutcomes : GenerateEnglishTranslation(o)

ResultSpec == ResultInit /\ [][ResultNext]_vars

(***************************************************************************)
(* get_products, create_product and delete_product (api_routes.py) on the  *)
(* products table.  A product is its id and its name; calls.next_id is the *)
(* id the database gives the next row.  The session is made with           *)
(* autoflush=False (database.py), so the count in delete_product still     *)
(* includes the row that db.delete marked.                                 *)
(***************************************************************************)

\* the calls of the three handlers in a run
MaxProductCalls == 4

\* the number of products the handlers keep
ProductLimit == 3

\* the rows the table starts with: at most ProductLimit products
InitialProducts ==
    { [i \in 1..n |-> [id |-> i, name |-> "stored"]] : n \in 0..ProductLimit }

ProductInit ==
    /\ data = NoDoc
    /\ pc = "done"
    /\ chinese_texts = <<>>
    /\ batches = <<>>
    /\ task = <<>>
    /\ sem = 0
    /\ outcome = <<>>
    /\ batch_results = <<>>
    /\ completed = <<>>
    /\ all_translations = EmptyMap
    /\ translated_data = NoDoc
    /\ requests = 0
    /\ redis = EmptyMap
    /\ verify_succeeded = {}
    /\ records = <<>>
    /\ cache = EmptyMap
    /\ products \in InitialProducts
    /\ calls = [handled |-> 0, next_id |-> ProductLimit + 1]
    /\ response = [handler |-> "none", status |-> 0, returned |-> <<>>]
    /\ heap = <<>>
    /\ callers = <<>>
    /\ tokens = EmptyMap
    /\ now = 0

\* a create_product that is never refused
LimitNeverReached(product_count) == FALSE

\* if product_count >= 3
LimitReached(product_count) == product_count >= ProductLimit

\* while len(products) < 3: products.append(Product(name=f"Product {len + 1}"))
RECURSIVE FillProducts(_, _)
FillProducts(rows, next_id) ==
    IF Len(rows) >= ProductLimit THEN rows
    ELSE FillProducts(Append(rows, [id |-> next_id, name |-> "placeholder"]), next_id + 1)

\* GET /products; committed is whether db.commit() succeeds
GetProducts(committed) ==
    /\ calls.handled < MaxProductCalls
    /\ LET filled == FillProducts(products, calls.next_id)
       IN  IF committed
           THEN /\ products' = filled
                /\ calls' = [handled |-> calls.handled + 1,
                             next_id |-> calls.next_id + (Len(filled) - Len(products))]
                /\ response' = [handler |-> "get_products", status |-> 200,
                                returned |-> SubSeq(filled, 1, ProductLimit)]
           ELSE /\ products' = products
                /\ calls' = [calls EXCEPT !.handled = @ + 1]
                /\ response' = [handler |-> "get_products", status |-> 500,
                                returned |-> <<>>]
    /\ UNCHANGED <<redis, verify_succeeded, records, cache, heap, callers, tokens, now>>
    /\ UNCHANGED translateVars

\* POST /admin/products
CreateProduct(committed) ==
    /\ calls.handled < MaxProductCalls
    /\ IF LimitReached(Len(products))
       THEN /\ products' = products
            /\ calls' = [calls EXCEPT !.handled = @ + 1]
            /\ response' = [handler |-> "create_product", status |-> 400, returned |-> <<>>]
       ELSE IF committed
       THEN /\ products' = Append(products, [id |-> calls.next_id, name |-> "created"])
            /\ calls' = [handled |-> calls.handled + 1, next_id |-> calls.next_id + 1]
            /\ response' = [handler |-> "create_product", status |-> 200,
                            returned |-> <<[id |-> calls.next_id, name |-> "created"]>>]
       ELSE /\ products' = products
            /\ calls' = [calls EXCEPT !.handled = @ + 1]
            /\ response' = [handler |-> "create_product", status |-> 500, returned |-> <<>>]
    /\ UNCHANGED <<redis, verify_succeeded, records, cache, heap, callers, tokens, now>>
    /\ UNCHANGED translateVars

\* the rows without the one with this id
WithoutProduct(rows, product_id) ==
    SelectSeq(rows, LAMBDA row : row.id # product_id)

\* DELETE /admin/products/{product_id}: the HTTPException of a product that
\* is not found is caught by except Exception and answered with 500
DeleteProduct(product_id, committed) ==
    /\ calls.handled < MaxProductCalls
    /\ LET found == \E i \in 1..Len(products) : products[i].id = product_id
           product_count == Len(products)
           remaining == WithoutProduct(products, product_id)
       IN  IF ~found \/ ~committed
           THEN /\ products' = products
                /\ calls' = [calls EXCEPT !.handled = @ + 1]
                /\ response' = [handler |-> "delete_product", status |-> 500,
                                returned |-> <<>>]
           ELSE IF product_count < ProductLimit
           THEN /\ products' = Append(remaining,
                                      [id |-> calls.next_id, name |-> "placeholder"])
                /\ calls' = [handled |-> calls.handled + 1, next_id |-> calls.next_id + 1]
                /\ response' = [handler |-> "delete_product", status |-> 200,
                                returned |-> <<>>]
           ELSE /\ products' = remaining
                /\ calls' = [calls EXCEPT !.handled = @ + 1]
                /\ response' = [handler |-> "delete_product", status |-> 200,
                                returned |-> <<>>]
    /\ UNCHANGED <<redis, verify_succeeded, records, cache, heap, callers, tokens, now>>
    /\ UNCHANGED translateVars

\* the ids a request can name: those of rows and one of no row
ProductIds == 1..(ProductLimit + MaxProductCalls * ProductLimit)

ProductNext ==
    \/ \E committed \in BOOLEAN : GetProducts(committed)
    \/ \E committed \in BOOLEAN : CreateProduct(committed)
    \/ \E product_id \in ProductIds : \E committed \in BOOLEAN :
          DeleteProduct(product_id, committed)

ProductSpec == ProductInit /\ [][ProductNext]_vars

(***************************************************************************)
(* TokenService (token_service.py): generate_token, verify_token and       *)
(* cleanup_expired_tokens on self.tokens.  now is datetime.now() in ticks  *)
(* of twelve hours; calls records which tokens were generated and how      *)
(* often verify_token succeeded for each.                                  *)
(***************************************************************************)

\* the last tick of the clock
MaxNow == 4

\* self.token_expiry = timedelta(hours=24), in ticks
token_expiry == 2

\* the sha256 digests generate_token can produce, and one it never produced
TokenNames == {"t1", "t2"}

UnknownToken == "t0"

\* ALLOW_TOKEN_REUSE set to true
AllowTokenReuseSet == TRUE

\* os.getenv("ALLOW_TOKEN_REUSE", "false").lower() == "true", with the
\* variable not set
AllowTokenReuse == FALSE

TokenInit ==
    /\ data = NoDoc
    /\ pc = "done"
    /\ chinese_texts = <<>>
    /\ batches = <<>>
    /\ task = <<>>
    /\ sem = 0
    /\ outcome = <<>>
    /\ batch_results = <<>>
    /\ completed = <<>>
    /\ all_translations = EmptyMap
    /\ translated_data = NoDoc
    /\ requests = 0
    /\ redis = EmptyMap
    /\ verify_succeeded = {}
    /\ records = <<>>
    /\ cache = EmptyMap
    /\ calls = [generated |-> {}, verified |-> [t \in TokenNames |-> 0]]
    /\ response = [handler |-> "none", token |-> "", success |-> FALSE]
    /\ heap = <<>>
    /\ callers = <<>>
    /\ products = <<>>
    /\ tokens = EmptyMap
    /\ now = 0

\* datetime.now() advances
Tick ==
    /\ now < MaxNow
    /\ now' = now + 1
    /\ UNCHANGED <<redis, verify_succeeded, records, cache, calls, response, heap,
                   callers, products, tokens>>
    /\ UNCHANGED translateVars

\* generate_token: the digest of a fresh random string is a new token
GenerateToken(token) ==
    /\ token \notin calls.generated
    /\ tokens' = Put(tokens, token,
                     [created_at |-> now, expires_at |-> now + token_expiry,
                      used |-> FALSE, last_used |-> 0])
    /\ calls' = [calls EXCEPT !.generated = @ \cup {token}]
    /\ response' = [handler |-> "generate_token", token |-> token, success |-> TRUE]
    /\ UNCHANGED <<redis, verify_succeeded, records, cache, heap, callers, products, now>>
    /\ UNCHANGED translateVars

\* datetime.now() > token_data["expires_at"]
Expired(token_data) == now > token_data.expires_at

VerifyToken(token) ==
    /\ IF token \notin DOMAIN tokens
       THEN /\ tokens' = tokens
            /\ calls' = calls
            /\ response' = [handler |-> "verify_token", token |-> token, success |-> FALSE]
       ELSE IF Expired(tokens[token])
       THEN /\ tokens' = Del(tokens, token)
            /\ calls' = calls
            /\ response' = [handler |-> "verify_token", token |-> token, success |-> FALSE]
       ELSE IF tokens[token].used /\ ~AllowTokenReuse
       THEN /\ tokens' = tokens
            /\ calls' = calls
            /\ response' = [handler |-> "verify_token", token |-> token, success |-> FALSE]
       ELSE /\ tokens' = [tokens EXCEPT ![token].used = TRUE, ![token].last_used = now]
            /\ calls' = [calls EXCEPT !.verified[token] = @ + 1]
            /\ response' = [handler |-> "verify_token", token |-> token, success |-> TRUE]
    /\ UNCHANGED <<redis, verify_succeeded, records, cache, heap, callers, products, now>>
    /\ UNCHANGED translateVars

CleanupExpiredTokens ==
    /\ LET expired_tokens == {token \in DOMAIN tokens : Expired(tokens[token])}
       IN  tokens' = [token \in DOMAIN tokens \ expired_tokens |-> tokens[token]]
    /\ response' = [handler |-> "cleanup_expired_tokens", token |-> "", success |-> TRUE]
    /\ UNCHANGED <<redis, verify_succeeded, records, cache, calls, heap, callers,
                   products, now>>
    /\ UNCHANGED translateVars

TokenNext ==
    \/ Tick
    \/ \E token \in TokenNames : GenerateToken(token)
    \/ \E token \in TokenNames \cup {UnknownToken} : VerifyToken(token)
    \/ CleanupExpiredTokens

TokenSpec == TokenInit /\ [][TokenNext]_vars

(***************************************************************************)
(* AstrologyDataMaskingService (astrology_data_mask.py) and the response   *)
(* of calculate_astrology (api_routes.py): the validated result is masked, *)
(* dumped, written to the cache and returned; a cache hit returns the      *)
(* cached value.  A text is [t |-> "str", s |-> ...] or None.              *)
(***************************************************************************)

\* the requests that pass the verification gate in a run
MaxMasked == 2

\* MASK_CHAR = "*"
MASK_CHAR == 42

\* TEASER_TEXTS['en'] = "...Unlock to view full content"
TeaserEn == <<46, 46, 46, 85, 110, 108, 111, 99, 107, 32, 116, 111, 32, 118, 105, 101, 119, 32, 102, 117, 108, 108, 32, 99, 111, 110, 116, 101, 110, 116>>

\* TEASER_TEXTS['zh']
TeaserZh == <<46, 46, 46, 35299, 38145, 26597, 30475, 23436, 25972, 20869, 23481>>

Teaser(lang) == IF lang = "zh" THEN TeaserZh ELSE TeaserEn

\* a mask_text that returns the text
MaskTextNot(text, preview_length, lang) == text

\* mask_text with mask_ratio = 0.7: a text that is None, empty or not longer
\* than preview_length is returned; otherwise the preview, at most ten mask
\* characters and the teaser
mask_text(text, preview_length, lang) ==
    IF text.t # "str" \/ text.s = <<>> \/ Len(text.s) <= preview_length THEN text
    ELSE LET remaining_length == Len(text.s) - preview_length
             mask_length == (remaining_length * 7) \div 10
             stars == IF mask_length < 10 THEN mask_length ELSE 10
         IN  Str(SubSeq(text.s, 1, preview_length)
                 \o [i \in 1..stars |-> MASK_CHAR] \o Teaser(lang))

\* the preview_length each masking function passes for each field
LiudaoPreview == 30

HuaxiangPreview ==
    [face_shape |-> 10, eyebrow_shape |-> 10, eye_shape |-> 10,
     mouth_shape |-> 10, nose_shape |-> 10, body_shape |-> 10]

TezhiPreview ==
    [romantic_personality |-> 25, family_background |-> 25,
     career_wealth |-> 25, marital_happiness |-> 25]

ZhiyinPreview ==
    [love_location |-> 20, meeting_method |-> 20, interaction_model |-> 20,
     love_advice |-> 30]

YunshiPreview == 40

mask_liudao_item(item, lang) ==
    [item EXCEPT !.liudao_detail_desc = mask_text(@, LiudaoPreview, lang)]

mask_liudao_response(response_view, lang) ==
    IF response_view.data = PyNone \/ response_view.data.liudao_info = PyNone
    THEN response_view
    ELSE [response_view EXCEPT
             !.data.liudao_info.past_info = mask_liudao_item(@, lang),
             !.data.liudao_info.now_info = mask_liudao_item(@, lang),
             !.data.liudao_info.future_info = mask_liudao_item(@, lang)]

\* mask_huaxiang, mask_tezhi and mask_zhiyin: every field of the group with
\* the preview length of the field
MaskFields(group, previews, lang) ==
    [f \in DOMAIN group |-> mask_text(group[f], previews[f], lang)]

mask_zhengyuan_response(response_view, lang) ==
    IF response_view.data = PyNone \/ response_view.data.zhengyuan_info = PyNone
    THEN response_view
    ELSE [response_view EXCEPT
             !.data.zhengyuan_info.huaxiang = MaskFields(@, HuaxiangPreview, lang),
             !.data.zhengyuan_info.tezhi = MaskFields(@, TezhiPreview, lang),
             !.data.zhengyuan_info.zhiyin = MaskFields(@, ZhiyinPreview, lang),
             !.data.zhengyuan_info.yunshi = mask_text(@, YunshiPreview, lang)]

\* a mask_astrology_response that leaves the Chinese part as it is
MaskEnglishOnly(validated, mask_liudao, mask_zhengyuan) ==
    [validated EXCEPT
        !.astrology_results.liudao =
            IF mask_liudao THEN mask_liudao_response(@, "en") ELSE @,
        !.astrology_results.zhengyuan =
            IF mask_zhengyuan THEN mask_zhengyuan_response(@, "en") ELSE @]

mask_astrology_response(validated, mask_liudao, mask_zhengyuan) ==
    [validated EXCEPT
        !.astrology_results.liudao =
            IF mask_liudao THEN mask_liudao_response(@, "en") ELSE @,
        !.astrology_results.zhengyuan =
            IF mask_zhengyuan THEN mask_zhengyuan_response(@, "en") ELSE @,
        !.chinese.liudao =
            IF mask_liudao THEN mask_liudao_response(@, "zh") ELSE @,
        !.chinese.zhengyuan =
            IF mask_zhengyuan THEN mask_zhengyuan_response(@, "zh") ELSE @]

\* a text of n letters, or of n CJK characters
TextOf(n, lang) ==
    Str([i \in 1..n |-> IF lang = "zh" THEN 19968 + i ELSE 97 + (i % 26)])

\* the texts of the results: None, one no longer than any preview length,
\* one as long as the longest preview length, one longer than every one
TextKinds == {"none", "short", "exact", "long"}

TextOfKind(kind, lang) ==
    IF kind = "none" THEN PyNone
    ELSE IF kind = "short" THEN TextOf(8, lang)
    ELSE IF kind = "exact" THEN TextOf(YunshiPreview, lang)
    ELSE TextOf(YunshiPreview + 12, lang)

\* an ApiLiudaoResponseView: without data, or with the three items
LiudaoView(with_data, text) ==
    IF ~with_data THEN [errcode |-> 0, data |-> PyNone]
    ELSE [errcode |-> 0,
          data |-> [liudao_info |->
                      [past_info |-> [liudao_detail_desc |-> text],
                       now_info |-> [liudao_detail_desc |-> text],
                       future_info |-> [liudao_detail_desc |-> text]]]]

\* an ApiZhengyuanResponseView: without data, or with the four groups
ZhengyuanView(with_data, text) ==
    IF ~with_data THEN [errcode |-> 0, data |-> PyNone]
    ELSE [errcode |-> 0,
          data |-> [zhengyuan_info |->
                      [huaxiang |-> [f \in DOMAIN HuaxiangPreview |-> text],
                       tezhi |-> [f \in DOMAIN TezhiPreview |-> text],
                       zhiyin |-> [f \in DOMAIN ZhiyinPreview |-> text],
                       yunshi |-> text]]]

\* an AstrologyResultsView in one language
ResultsView(with_liudao, with_zhengyuan, kind, lang) ==
    [bazi |-> TextOfKind("long", lang),
     liudao |-> LiudaoView(with_liudao, TextOfKind(kind, lang)),
     zhengyuan |-> ZhengyuanView(with_zhengyuan, TextOfKind(kind, lang))]

\* an AstrologyApiResponseView
ValidatedResponse(with_liudao, with_zhengyuan, kind) ==
    [astrology_results |-> ResultsView(with_liudao, with_zhengyuan, kind, "en"),
     chinese |-> ResultsView(with_liudao, with_zhengyuan, kind, "zh"),
     record_id |-> 1]

\* the AstrologyApiResponseView values model_validate gives: every text
\* kind with both parts present, and long texts with one part without data
ValidatedResponses ==
    { ValidatedResponse(TRUE, TRUE, kind) : kind \in TextKinds }
    \cup { ValidatedResponse(TRUE, FALSE, "long"), ValidatedResponse(FALSE, TRUE, "long") }

NoBody == [t |-> "none"]

MaskInit ==
    /\ data = NoDoc
    /\ pc = "done"
    /\ chinese_texts = <<>>
    /\ batches = <<>>
    /\ task = <<>>
    /\ sem = 0
    /\ outcome = <<>>
    /\ batch_results = <<>>
    /\ completed = <<>>
    /\ all_translations = EmptyMap
    /\ translated_data = NoDoc
    /\ requests = 0
    /\ redis = EmptyMap
    /\ verify_succeeded = {}
    /\ records = <<>>
    /\ cache = EmptyMap
    /\ calls = NoCalls
    /\ response = [handler |-> "none", email |-> "", status |-> 0, body |-> NoBody]
    /\ heap = <<>>
    /\ StoreInit

\* verify_code accepts the code of the email: the pipeline sets the
\* verified status
VerifyCodeAccepted(email) ==
    /\ redis' = Put(Del(redis, VcodeKey(email)), VerifiedKey(email), "true")
    /\ verify_succeeded' = verify_succeeded \cup {email}
    /\ UNCHANGED <<records, cache, calls, response, heap, storeVars>>
    /\ UNCHANGED translateVars

\* POST /astrology/calculate with the body of its response: validated is
\* what model_validate gives for the result of process_complete_astrology
\* (None when it raises), cache_written whether setex succeeded
CalculateAstrologyBody(user_info, validated, valid, cache_written) ==
    /\ IF ~is_email_recently_verified(user_info.email)
       THEN /\ response' = [handler |-> "calculate_astrology", email |-> user_info.email,
                            status |-> 400, body |-> NoBody]
            /\ UNCHANGED <<records, cache, calls>>
       ELSE /\ calls.cache_get < MaxMasked
            /\ LET cache_key == generate_astrology_cache_key(user_info)
                   final_response_dict == mask_astrology_response(validated, TRUE, TRUE)
               IN  IF cache_key \in DOMAIN cache
                   THEN /\ response' = [handler |-> "calculate_astrology",
                                        email |-> user_info.email, status |-> 200,
                                        body |-> cache[cache_key]]
                        /\ calls' = [calls EXCEPT !.cache_get = @ + 1]
                        /\ UNCHANGED <<records, cache>>
                   ELSE IF ~ValidDate(user_info.birth_date)
                   THEN /\ response' = [handler |-> "calculate_astrology",
                                        email |-> user_info.email, status |-> 500,
                                        body |-> NoBody]
                        /\ calls' = [calls EXCEPT !.cache_get = @ + 1]
                        /\ UNCHANGED <<records, cache>>
                   ELSE /\ records' = Append(records, [id |-> Len(records) + 1,
                                                       email |-> user_info.email])
                        /\ calls' = [calls EXCEPT
                                        !.cache_get = @ + 1,
                                        !.astrology = @ + 2,
                                        !.shopify = @ + 1,
                                        !.cache_set = @ + (IF valid THEN 1 ELSE 0)]
                        /\ cache' = IF valid /\ cache_written
                                    THEN Put(cache, cache_key, final_response_dict)
                                    ELSE cache
                        /\ response' = [handler |-> "calculate_astrology",
                                        email |-> user_info.email,
                                        status |-> IF valid THEN 200 ELSE 500,
                                        body |-> IF valid THEN final_response_dict
                                                 ELSE NoBody]
    /\ UNCHANGED <<redis, verify_succeeded, heap, storeVars>>
    /\ UNCHANGED translateVars

MaskNext ==
    \/ \E email \in Emails : VerifyCodeAccepted(email)
    \/ \E k \in DOMAIN redis : Expire(k)
    \/ \E k \in DOMAIN cache : CacheExpire(k)
    \/ \E user_info \in UserInfos : \E validated \in ValidatedResponses :
          \E valid \in BOOLEAN : \E cache_written \in BOOLEAN :
             CalculateAstrologyBody(user_info, validated, valid, cache_written)

MaskSpec == MaskInit /\ [][MaskNext]_vars

(***************************************************************************)
(* Relations between documents                                             *)
(***************************************************************************)

\* Python's == on documents: dicts compare as sets of items, lists by position
RECURSIVE ValueEqual(_, _)
ValueEqual(x, y) ==
    IF x.t # y.t THEN FALSE
    ELSE IF x.t = "dict"
    THEN /\ Len(x.entries) = Len(y.entries)
         /\ \A i \in 1..Len(x.entries) : \E j \in 1..Len(y.entries) :
                /\ x.entries[i].k = y.entries[j].k
                /\ ValueEqual(x.entries[i].v, y.entries[j].v)
    ELSE IF x.t = "list"
    THEN /\ Len(x.items) = Len(y.items)
         /\ \A i \in 1..Len(x.items) : ValueEqual(x.items[i], y.items[i])
    ELSE x = y

IsLeaf(x) == x.t \in {"str", "num"}

\* y has the nesting of x, lists of the same length and dicts with as many
\* entries, each key equal to x's key or, for a CJK key, to its map entry
RECURSIVE SameShape(_, _, _)
SameShape(x, y, translations) ==
    IF x.t = "dict"
    THEN /\ y.t = "dict"
         /\ Len(y.entries) = Len(x.entries)
         /\ \A i \in 1..Len(x.entries) :
                /\ \/ y.entries[i].k = x.entries[i].k
                   \/ /\ has_chinese(x.entries[i].k)
                      /\ Strip(x.entries[i].k) \in DOMAIN translations
                      /\ y.entries[i].k = translations[Strip(x.entries[i].k)]
                /\ SameShape(x.entries[i].v, y.entries[i].v, translations)
    ELSE IF x.t = "list"
    THEN /\ y.t = "list"
         /\ Len(y.items) = Len(x.items)
         /\ \A i \in 1..Len(x.items) : SameShape(x.items[i], y.items[i], translations)
    ELSE IsLeaf(x) /\ IsLeaf(y)

Failed(b) == outcome[b].kind \in Exceptions
Succeeded(b) == outcome[b].kind = "ok"

(***************************************************************************)
(* Claims                                                                  *)
(***************************************************************************)

\* C1: the result of every finished batch task has a key for every unit of
\* its batch, whatever the remote outcome was, and the map batch_translate
\* returns has a key for every extracted unit, so it is never smaller than
\* the list of units.
C1_Coverage ==
    /\ \A b \in DOMAIN task :
           task[b] = "done" => Range(batches[b]) \subseteq DOMAIN batch_results[b].map
    /\ (pc = "done" /\ chinese_texts # <<>>) =>
           /\ Range(chinese_texts) \subseteq DOMAIN all_translations
           /\ Cardinality(DOMAIN all_translations) >= Len(chinese_texts)

\* a returned map where one batch answered without a line for any unit and
\* another batch failed
C1_Witness ==
    /\ pc = "done"
    /\ Len(chinese_texts) >= 3
    /\ \E b \in DOMAIN task : Succeeded(b) /\ outcome[b].text = <<>>
    /\ \E b \in DOMAIN task : Failed(b)

\* C2: when the request of every batch fails, translate_json returns a
\* document value-equal to its input.
C2_FallbackIdentity ==
    (pc = "done" /\ chinese_texts # <<>> /\ \A b \in DOMAIN task : Failed(b))
        => ValueEqual(translated_data, data)

\* C3: no remote outcome makes a batch task, asyncio.gather or translate_json
\* raise; what translate_json returns is a document, and while it awaits
\* asyncio.gather some task can still step or the gather can return.
C3_NeverRaises ==
    /\ pc # "raised"
    /\ \A b \in DOMAIN task : task[b] # "raised"
    /\ pc = "done" => translated_data.t \in {"dict", "list"}
    /\ pc = "gather" =>
           \/ \E b \in DOMAIN task : task[b] = "holding"
           \/ \E b \in DOMAIN task : task[b] = "pending" /\ sem > 0
           \/ \A b \in DOMAIN task : task[b] = "done"

\* a call that returned although one request gave a malformed body and
\* another timed out
C3_Witness ==
    /\ pc = "done"
    /\ \E b \in DOMAIN task : outcome[b].kind = "JSONDecodeError"
    /\ \E b \in DOMAIN task : outcome[b].kind = "TimeoutException"

\* C4: a document without any unit to translate is returned as it is, and no
\* remote request is issued for it.
C4_NoOpOnEmpty ==
    find_chinese_texts(data) = <<>> =>
        /\ requests = 0
        /\ pc # "gather"
        /\ pc = "done" => translated_data = data

\* a returned dict whose only value is a string without CJK text
C4_Witness ==
    /\ pc = "done"
    /\ find_chinese_texts(data) = <<>>
    /\ data.t = "dict"
    /\ Len(data.entries) = 1
    /\ data.entries[1].v.t = "str"
    /\ data.entries[1].v.s # <<>>

\* C5: the document translate_json returns has the shape of its input:
\* same nesting, same list lengths, same number of dict entries.
C5_ShapePreserved ==
    pc = "done" => SameShape(data, IF chinese_texts = <<>> THEN data ELSE translated_data,
                             all_translations)

\* C6: the number of batch tasks that hold the semaphore, each with one
\* request in flight, never exceeds max_concurrent, however many batches
\* there are; the slots taken and the slots free add up to max_concurrent,
\* so a waiting task is held back exactly while all slots are taken.
C6_ConcurrencyBound ==
    /\ task.holding <= max_concurrent
    /\ sem >= 0
    /\ task.holding + sem = max_concurrent
    /\ requests = task.holding + task.done

\* all slots taken while further batches wait
C6_Witness ==
    /\ task.holding = max_concurrent
    /\ task.pending > 0
    /\ sem = 0

\* C7: a failed batch maps each of its units to the unit itself, every other
\* batch's units map to what that batch's own response gives, every task
\* runs to its end and batch_translate returns.
C7_FailureIsolation ==
    /\ pc # "raised"
    /\ (pc = "done" /\ chinese_texts # <<>>) =>
           \A b \in DOMAIN task :
               /\ task[b] = "done"
               /\ \A u \in Range(batches[b]) :
                      /\ u \in DOMAIN all_translations
                      /\ Failed(b) => all_translations[u] = u
                      /\ Succeeded(b) =>
                             all_translations[u] = ParseResponse(batches[b], outcome[b].text)[u]

\* the first batch to finish failed, and a sibling then got its translation
C7_Witness ==
    /\ pc = "done"
    /\ Len(completed) = 2
    /\ Failed(completed[1])
    /\ Succeeded(completed[2])
    /\ \E u \in Range(batches[completed[2]]) : all_translations[u] # u

UnitEntry(i) ==
    LET b == ((i - 1) \div batch_size) + 1
    IN  IF Failed(b) THEN chinese_texts[i]
        ELSE ParseResponse(batches[b], outcome[b].text)[chinese_texts[i]]

\* C9: the returned map is a function of the units and of the per-batch
\* responses alone, whatever the order in which the tasks finished, and the
\* batches hold disjoint sets of units.
C9_OrderIndependence ==
    (pc = "done" /\ chinese_texts # <<>>) =>
        /\ \A b1, b2 \in DOMAIN batches :
               b1 # b2 => Range(batches[b1]) \cap Range(batches[b2]) = {}
        /\ DOMAIN all_translations = Range(chinese_texts)
        /\ \A i \in 1..Len(chinese_texts) :
               all_translations[chinese_texts[i]] = UnitEntry(i)
        /\ translated_data =
               apply_translations(data, [u \in Range(chinese_texts) |->
                   UnitEntry(CHOOSE i \in 1..Len(chinese_texts) : chinese_texts[i] = u)])

\* the second batch finished before the first, and both were translated
C9_Witness ==
    /\ pc = "done"
    /\ completed = <<2, 1>>
    /\ \A b \in DOMAIN task : Succeeded(b)
    /\ \A u \in Range(chinese_texts) : all_translations[u] # u

\* a string of several lines, some with CJK characters and some without
MixedLines(s) ==
    /\ Len(Split(s)) > 1
    /\ \E i \in 1..Len(Split(s)) : has_chinese(Split(s)[i])
    /\ \E i \in 1..Len(Split(s)) : ~has_chinese(Split(s)[i])

\* out has the lines of s in number and order, the lines without CJK as in s
LinesKept(s, out) ==
    /\ Len(Split(out)) = Len(Split(s))
    /\ \A i \in 1..Len(Split(s)) : ~has_chinese(Split(s)[i]) => Split(out)[i] = Split(s)[i]

\* LinesKept for every mixed string leaf of x, y being the result for x
RECURSIVE LineRoundTrip(_, _)
LineRoundTrip(x, y) ==
    IF x.t = "dict" /\ y.t = "dict" /\ Len(x.entries) = Len(y.entries)
    THEN \A i \in 1..Len(x.entries) : LineRoundTrip(x.entries[i].v, y.entries[i].v)
    ELSE IF x.t = "list" /\ y.t = "list" /\ Len(x.items) = Len(y.items)
    THEN \A i \in 1..Len(x.items) : LineRoundTrip(x.items[i], y.items[i])
    ELSE IF x.t = "str" /\ MixedLines(x.s)
    THEN y.t = "str" /\ LinesKept(x.s, y.s)
    ELSE TRUE

\* C10: in the document translate_json returns, every multi-line string of
\* which only some lines hold CJK characters keeps its number of lines, their
\* order and its lines without CJK characters.
C10_LineRoundTrip ==
    (pc = "done" /\ chinese_texts # <<>>) => LineRoundTrip(data, translated_data)

\* The step of calculate_astrology for a request without verified status.
GateRejects ==
    \A user_info \in UserInfos : \A o \in ServiceOutcomes :
        (VerifiedKey(user_info.email) \notin DOMAIN redis /\ CalculateAstrology(user_info, o))
        => /\ response'.status = 400
           /\ records' = records
           /\ cache' = cache
           /\ calls' = calls

\* C11: calculate_astrology answers a request whose email has no live
\* verified status with HTTP 400 and on that path creates no record, reads
\* and writes no cache entry and calls none of the astrology, translation and
\* Shopify services; and a verified status is in Redis only for an email for
\* which verify_code has succeeded.
C11_VerificationGate ==
    /\ [](\A email \in Emails :
             VerifiedKey(email) \in DOMAIN redis => email \in verify_succeeded)
    /\ [][GateRejects]_vars

\* a request was rejected with 400 after the verified status of its email
\* had expired, while another email's request had been processed
C11_Witness ==
    /\ response = [handler |-> "calculate_astrology", email |-> "a@x.com", status |-> 400]
    /\ "a@x.com" \in verify_succeeded
    /\ VerifiedKey("a@x.com") \notin DOMAIN redis
    /\ VerifiedKey("b@x.com") \in DOMAIN redis
    /\ Len(records) > 0

\* both requests of the scenario were answered
ScenarioAnswered == pc = "done" /\ \A b \in DOMAIN outcome : outcome[b].kind = "ok"

\* C12: in Scenario 1, with the remote endpoint answering San Zhang,
\* Favorable Element and Test for the units 张三, 喜用神 and 测试,
\* translate_json returns {"name": "San Zhang", "note": "Favorable Element\nTest"}.
C12_Scenario1 == ScenarioAnswered => translated_data = Scenario1Expected

\* a response line that is not numbered, or whose number is in 1..n
InRange(line, n) ==
    LET match == RegexMatch(Strip(line))
    IN  ~match.ok \/ (1 <= IntOf(match.g1) /\ IntOf(match.g1) <= n)

\* the response lines without those numbered outside 1..n
RECURSIVE DropOutOfRange(_, _)
DropOutOfRange(lines, n) ==
    IF lines = <<>> THEN <<>>
    ELSE IF InRange(lines[1], n) THEN <<lines[1]>> \o DropOutOfRange(Tail(lines), n)
    ELSE DropOutOfRange(Tail(lines), n)

\* C13: a response line whose number is not in 1..N, N the number of units of
\* the batch, changes no entry of the batch's map: the map is the one the
\* response gives without these lines.
C13_OutOfRangeIgnored ==
    \A b \in DOMAIN outcome :
        (outcome[b].kind = "ok" /\ batch_results[b].done)
        => batch_results[b].map =
               ParseResponse(batches[b],
                   Join(DropOutOfRange(Split(outcome[b].text), Len(batches[b]))))

\* the translations of the well-formed lines "<i>. <text>" of a response, in
\* the order of the lines
RECURSIVE LinesFor(_, _)
LinesFor(lines, i) ==
    IF lines = <<>> THEN <<>>
    ELSE LET match == RegexMatch(Strip(lines[1]))
         IN  IF match.ok /\ IntOf(match.g1) = i
             THEN <<Strip(match.g2)>> \o LinesFor(Tail(lines), i)
             ELSE LinesFor(Tail(lines), i)

\* C14: in a batch whose request succeeded, the units for which the response
\* has no well-formed line "<index>. <text>" map to their original text, and
\* the other units of the batch map to the translation the response gave.
C14_PartialRecovery ==
    \A b \in DOMAIN outcome :
        (outcome[b].kind = "ok" /\ batch_results[b].done)
        => \A i \in 1..Len(batches[b]) :
              LET found == LinesFor(Split(outcome[b].text), i)
              IN  batch_results[b].map[batches[b][i]] =
                      IF found = <<>> THEN batches[b][i] ELSE found[Len(found)]

\* the trimmed lines of a string and its whole trimmed form
LeafUnits(s) == {Strip(Split(s)[i]) : i \in 1..Len(Split(s))} \cup {Strip(s)}

\* the nodes of a document in depth-first order (a key before its value, list
\* elements by position), each as the set of strings it can contribute
RECURSIVE NodeUnits(_)
RECURSIVE EntryUnits(_)
RECURSIVE ItemUnits(_)
NodeUnits(x) ==
    IF x.t = "dict" THEN EntryUnits(x.entries)
    ELSE IF x.t = "list" THEN ItemUnits(x.items)
    ELSE IF x.t = "str" THEN <<LeafUnits(x.s)>>
    ELSE <<>>

EntryUnits(entries) ==
    IF entries = <<>> THEN <<>>
    ELSE <<{Strip(entries[1].k)}>> \o NodeUnits(entries[1].v) \o EntryUnits(Tail(entries))

ItemUnits(items) ==
    IF items = <<>> THEN <<>>
    ELSE NodeUnits(items[1]) \o ItemUnits(Tail(items))

\* the position of the first node of the traversal that holds u (0: none)
FirstNode(nodes, u) ==
    IF \E n \in 1..Len(nodes) : u \in nodes[n]
    THEN CHOOSE n \in 1..Len(nodes) :
             u \in nodes[n] /\ \A q \in 1..(n - 1) : u \notin nodes[q]
    ELSE 0

\* C15: the list find_chinese_texts returns holds no string twice; each of its
\* strings is non-empty, equals its own trimmed form and has a character in
\* U+4E00..U+9FFF; and the strings are in the order of their first occurrence
\* in the depth-first traversal of the document.
C15_ExtractorInvariant ==
    pc # "start" =>
        /\ \A i, j \in 1..Len(chinese_texts) : i # j => chinese_texts[i] # chinese_texts[j]
        /\ \A i \in 1..Len(chinese_texts) :
              /\ chinese_texts[i] # <<>>
              /\ Strip(chinese_texts[i]) = chinese_texts[i]
              /\ has_chinese(chinese_texts[i])
        /\ \A i, j \in 1..Len(chinese_texts) :
              i < j => /\ FirstNode(NodeUnits(data), chinese_texts[i]) > 0
                       /\ FirstNode(NodeUnits(data), chinese_texts[i])
                              <= FirstNode(NodeUnits(data), chinese_texts[j])

\* a list whose second leaf repeats a unit of the first and adds a new one:
\* the repeated unit stays where it first occurred
C15_Witness ==
    /\ pc # "start"
    /\ data.t = "list"
    /\ Len(data.items) = 2
    /\ Len(chinese_texts) = 3
    /\ FirstNode(NodeUnits(data), chinese_texts[1]) = 1
    /\ FirstNode(NodeUnits(data), chinese_texts[2]) = 2
    /\ chinese_texts[1] \in NodeUnits(data)[2]

\* all dictionary keys of a document
RECURSIVE KeysOf(_)
KeysOf(x) ==
    IF x.t = "dict"
    THEN {x.entries[i].k : i \in 1..Len(x.entries)}
             \cup UNION {KeysOf(x.entries[i].v) : i \in 1..Len(x.entries)}
    ELSE IF x.t = "list" THEN UNION {KeysOf(x.items[i]) : i \in 1..Len(x.items)}
    ELSE {}

\* all string leaves of a document
RECURSIVE StringLeavesOf(_)
StringLeavesOf(x) ==
    IF x.t = "dict" THEN UNION {StringLeavesOf(x.entries[i].v) : i \in 1..Len(x.entries)}
    ELSE IF x.t = "list" THEN UNION {StringLeavesOf(x.items[i]) : i \in 1..Len(x.items)}
    ELSE IF x.t = "str" THEN {x.s}
    ELSE {}

\* the units a document is to give: the CJK keys, the CJK lines of the string
\* leaves and the whole CJK leaves, all trimmed
ExpectedUnits(x) ==
    {Strip(k) : k \in {q \in KeysOf(x) : has_chinese(q)}}
        \cup UNION {{Strip(Split(s)[i]) : i \in {n \in 1..Len(Split(s)) : has_chinese(Split(s)[n])}}
                       : s \in StringLeavesOf(x)}
        \cup {Strip(s) : s \in {q \in StringLeavesOf(x) : has_chinese(q)}}

\* C16: the list find_chinese_texts returns holds the trimmed form of every
\* dictionary key with a CJK character, the trimmed form of every line with a
\* CJK character of every string leaf, and the whole trimmed string of every
\* string leaf with a CJK character; it holds nothing else.
C16_ExtractorComplete ==
    pc # "start" => Range(chinese_texts) = ExpectedUnits(data)

\* a dictionary with a CJK key and a two-line CJK value: the key, the lines
\* and the whole value are units
C16_Witness ==
    /\ pc # "start"
    /\ data.t = "dict"
    /\ Len(data.entries) = 1
    /\ has_chinese(data.entries[1].k)
    /\ data.entries[1].v.t = "str"
    /\ Len(Split(data.entries[1].v.s)) = 2
    /\ Strip(data.entries[1].v.s) \in Range(chinese_texts)
    /\ Strip(data.entries[1].k) \in Range(chinese_texts)
    /\ Cardinality(Range(chinese_texts)) = 3

\* the concatenation of the slices
RECURSIVE Concat(_)
Concat(slices) ==
    IF slices = <<>> THEN <<>> ELSE slices[1] \o Concat(Tail(slices))

\* C17: batch_translate cuts the N units into consecutive slices that
\* concatenate to the input, each but possibly the last of batch_size units,
\* ceil(N / batch_size) slices in all; one request is issued per slice and no
\* more, whether the requests succeed or fail.
C17_BatchingAndRequests ==
    pc \in {"gather", "done"} =>
        /\ Concat(batches) = chinese_texts
        /\ \A b \in 1..(Len(batches) - 1) : Len(batches[b]) = batch_size
        /\ \A b \in 1..Len(batches) : Len(batches[b]) \in 1..batch_size
        /\ Len(batches) * batch_size >= Len(chinese_texts)
        /\ (Len(batches) - 1) * batch_size < Len(chinese_texts)
        /\ requests = Cardinality({b \in DOMAIN task : task[b] # "pending"})
        /\ pc = "done" => requests = Len(batches)

\* three units in two slices, the last one short; the first request failed
\* and was not repeated
C17_Witness ==
    /\ pc = "done"
    /\ Len(chinese_texts) = 3
    /\ Len(batches) = 2
    /\ Len(batches[2]) = 1
    /\ Failed(1)
    /\ requests = 2

\* some line of s has a map entry that differs from the trimmed line
SomeLineChanged(s, mp) ==
    \E i \in 1..Len(Split(s)) :
        /\ Strip(Split(s)[i]) \in DOMAIN mp
        /\ mp[Strip(Split(s)[i])] # Strip(Split(s)[i])

\* the lines of s, each replaced by the map entry of its trimmed form when
\* there is one
LinesReplaced(s, mp) ==
    [i \in 1..Len(Split(s)) |->
        IF Strip(Split(s)[i]) \in DOMAIN mp THEN mp[Strip(Split(s)[i])] ELSE Split(s)[i]]

\* the substitution rule for a string leaf
LeafRule(s, mp) ==
    IF ~has_chinese(s) THEN s
    ELSE IF Strip(s) \in DOMAIN mp THEN mp[Strip(s)]
    ELSE IF SomeLineChanged(s, mp) THEN Join(LinesReplaced(s, mp))
    ELSE s

\* C18: apply_translations gives for a string leaf with a CJK character the
\* map entry of its trimmed form when there is one; otherwise its lines, each
\* replaced by the map entry of its trimmed form when there is one, rejoined
\* with newlines if at least one replacement differs from the trimmed line,
\* and the original string if none does; strings without CJK characters and
\* other scalars are returned as they are.
C18_LeafSubstitution ==
    pc = "done" =>
        /\ data.t = "str" => translated_data = Str(LeafRule(data.s, all_translations))
        /\ data.t = "num" => translated_data = data

\* the keys of a dict node
TopKeys(x) == {x.entries[i].k : i \in 1..Len(x.entries)}

\* the key rule: the map entry of the trimmed key for a key with a CJK
\* character whose trimmed form is in the map, the key itself otherwise
KeyRule(k, mp) ==
    IF has_chinese(k) /\ Strip(k) \in DOMAIN mp THEN mp[Strip(k)] ELSE k

\* C19: apply_translations replaces a dictionary key only if the key has a
\* CJK character and its trimmed form is a key of the map; a key without CJK
\* characters is a key of the output as it is, whatever the map holds.
C19_KeySubstitution ==
    (pc = "done" /\ data.t = "dict") =>
        /\ translated_data.t = "dict"
        /\ TopKeys(translated_data) = {KeyRule(k, all_translations) : k \in TopKeys(data)}
        /\ \A k \in TopKeys(data) : ~has_chinese(k) => k \in TopKeys(translated_data)

\* the map holds the non-CJK key "a" and the trimmed CJK key: "a" stays,
\* the CJK key is replaced
C19_Witness ==
    /\ pc = "done"
    /\ data.t = "dict"
    /\ TopKeys(data) = {<<Ch.a>>, <<Ch.sp, Ch.xi>>}
    /\ <<Ch.a>> \in DOMAIN all_translations
    /\ all_translations[<<Ch.a>>] = <<Ch.J>>
    /\ <<Ch.xi>> \in DOMAIN all_translations
    /\ TopKeys(translated_data) = {<<Ch.a>>, all_translations[<<Ch.xi>>]}

\* the document a heap value stands for
RECURSIVE Value(_, _)
Value(h, v) ==
    IF v.t # "ref" THEN v
    ELSE IF h[v.id].t = "dict"
    THEN Dict([i \in 1..Len(h[v.id].entries) |->
                  [k |-> h[v.id].entries[i].k, v |-> Value(h, h[v.id].entries[i].v)]])
    ELSE List([i \in 1..Len(h[v.id].items) |-> Value(h, h[v.id].items[i])])

\* the dict and list objects a heap value reaches
RECURSIVE Containers(_, _)
Containers(h, v) ==
    IF v.t # "ref" THEN {}
    ELSE IF h[v.id].t = "dict"
    THEN {v.id} \cup UNION {Containers(h, h[v.id].entries[i].v) : i \in 1..Len(h[v.id].entries)}
    ELSE {v.id} \cup UNION {Containers(h, h[v.id].items[i]) : i \in 1..Len(h[v.id].items)}

\* what a call of apply_translations leaves of its arguments
ArgumentsKept ==
    (pc = "start" /\ pc' = "done") =>
        /\ Value(heap', data) = Value(heap, data)
        /\ heap'[all_translations.id] = heap[all_translations.id]
        /\ \A id \in DOMAIN heap : heap'[id] = heap[id]
        /\ Containers(heap', translated_data') \cap DOMAIN heap = {}
        /\ Value(heap', translated_data') = apply_translations(Value(heap, data), heap[1].m)

\* C20: apply_translations does not mutate its arguments: after the call the
\* document and the map are equal to what they were, and every dict and list
\* of the result is a container that did not exist before the call.
C20_NoMutation == [][ArgumentsKept]_vars

\* a dict whose two values are one and the same list: the result holds three
\* new containers and differs from the argument, which is as it was
C20_Witness ==
    /\ pc = "done"
    /\ data = Ref(3)
    /\ heap[3].t = "dict"
    /\ Len(heap[3].entries) = 2
    /\ heap[3].entries[1].v.t = "ref"
    /\ heap[3].entries[1].v = heap[3].entries[2].v
    /\ translated_data.t = "ref"
    /\ Cardinality(Containers(heap, translated_data)) = 3
    /\ Containers(heap, translated_data) \cap Containers(heap, data) = {}
    /\ Value(heap, translated_data) # Value(heap, data)

\* C21: for a document without CJK text, the empty document among them,
\* extract_and_translate_astrology_result returns a document structurally
\* and value-equal to its input.
C21_EntryNoOp ==
    (pc = "done" /\ find_chinese_texts(data) = <<>>) => translated_data = data

\* C22: after a code has been stored for an email, at most one verify_code
\* call for that email succeeds until a new code is stored, however two
\* calls interleave between their GET and their DELETE+SET pipeline.
C22_OneTimeCode == \A email \in Emails : callers.successes[email] <= 1

\* the code verify_code would raise on is the one absent or different
VerifyRaises(email, code) ==
    \/ VcodeKey(email) \notin DOMAIN redis
    \/ redis[VcodeKey(email)] # code

\* a call that raises writes nothing to Redis
FailedVerificationKeeps ==
    \A email \in Emails : \A code \in Codes :
        (VerifyRaises(email, code) /\ VerifyEmailFirst(email, code)) => redis' = redis

\* a verified status appears only in a call with the code stored for the email
VerifiedOnlyByStoredCode ==
    \A email \in Emails :
        (VerifiedKey(email) \notin DOMAIN redis /\ VerifiedKey(email) \in DOMAIN redis')
        => /\ VcodeKey(email) \in DOMAIN redis
           /\ VerifyEmailFirst(email, redis[VcodeKey(email)])

\* C23: when verify_code raises VerificationCodeInvalidError or
\* VerificationCodeExpiredError, the stored codes and the verified statuses
\* of every email are unchanged; and the verified status of an email is set
\* only by a verify_code call whose code equals the code stored for that
\* email.
C23_FailedVerificationChangesNothing ==
    [][FailedVerificationKeeps /\ VerifiedOnlyByStoredCode]_vars

\* a call with the wrong code was answered for an email that never verified:
\* its code is still stored and the other email's verified status is kept
C23_Witness ==
    /\ response.handler = "verify_email_first"
    /\ response.email = "a@x.com"
    /\ "a@x.com" \notin verify_succeeded
    /\ VcodeKey("a@x.com") \in DOMAIN redis
    /\ VerifiedKey("b@x.com") \in DOMAIN redis

\* the status the claim gives to POST /verify-email-first: 200 when
\* verify_code accepts, 400 when the code is absent, expired or different
ClaimedVerifyStatus(email, code) == IF VerifyRaises(email, code) THEN 400 ELSE 200

VerifyAnswersAsClaimed ==
    \A email \in Emails : \A code \in Codes :
        VerifyEmailFirst(email, code) => response'.status = ClaimedVerifyStatus(email, code)

\* C24: POST /verify-email-first answers success when verify_code accepts
\* the code, HTTP 400 CODE_EXPIRED when the code is expired or absent and
\* HTTP 400 INVALID_CODE when it does not match; HTTP 500 only for
\* unexpected errors.
C24_VerifyEndpointStatus == [][VerifyAnswersAsClaimed]_vars

\* the first non-empty value among the entries of a name/value list whose
\* lowered name is one of names, <<>> without one
FirstNonEmptyNamed(pairs, names) ==
    LET hits == {i \in 1..Len(pairs) :
                    Lower(pairs[i].name) \in names /\ pairs[i].value # <<>>}
    IN  IF hits = {} THEN <<>> ELSE pairs[First(hits)].value

\* the line-item properties, as one list
RECURSIVE AllProperties(_)
AllProperties(line_items) ==
    IF line_items = <<>> THEN <<>>
    ELSE Head(line_items).properties \o AllProperties(Tail(line_items))

\* the value each of the seven locations holds, <<>> when it holds none
LocationValues(order_data) ==
    << FirstNonEmptyNamed(AllProperties(order_data.line_items),
                          {RecordIdName, RecordIdSpaced}),
       FirstNonEmptyNamed(order_data.note_attributes, {RecordIdName}),
       IF order_data.note.t = "str" /\ Contains(order_data.note.s, RecordIdLabel)
          /\ Words(SplitOn(order_data.note.s, RecordIdLabel)[2]) # <<>>
       THEN Words(SplitOn(order_data.note.s, RecordIdLabel)[2])[1] ELSE <<>>,
       LET parts == SplitOn(order_data.tags, Comma)
           hits == {i \in 1..Len(parts) :
                       /\ StartsWith(Strip(parts[i]), RecordPrefix)
                       /\ Len(Strip(parts[i])) > Len(RecordPrefix)}
       IN  IF hits = {} THEN <<>>
           ELSE SubSeq(Strip(parts[First(hits)]), Len(RecordPrefix) + 1,
                       Len(Strip(parts[First(hits)]))),
       Get(order_data.cart_attributes, RecordIdName, <<>>),
       RegexRecordDigits(order_data.customer_note),
       FirstNonEmptyNamed(order_data.order_attributes, {RecordIdName}) >>

\* the id of the first location that holds a non-empty value, None when no
\* location holds one or the value is not an integer
ClaimedRecordId(order_data) ==
    LET held == {i \in 1..7 : LocationValues(order_data)[i] # <<>>}
    IN  IF held = {} THEN PyNone
        ELSE LET value == LocationValues(order_data)[First(held)]
             IN  IF PyInt(value).raised # "none" THEN PyNone
                 ELSE [t |-> "num", n |-> PyInt(value).n]

\* C26: extract_record_id_from_order returns the id from the first of line
\* item properties, note attributes, order note, tags, cart attributes,
\* customer note and order attributes that holds a non-empty value; None
\* when none holds one or the value found is not an integer.
C26_ExtractionPriority ==
    pc = "done" => translated_data = ClaimedRecordId(data)

\* a delivery of an accepted topic for a record that already has the
\* incoming order id is answered as a duplicate and changes nothing
DuplicateAnswered ==
    \A webhook_topic \in AcceptedTopics \cap Topics : \A webhook_data \in WebhookOrders :
        \A committed \in BOOLEAN : \A rendered \in BOOLEAN :
            LET i == RecordIndex(ResolveRecordId(webhook_data))
            IN  (/\ i # 0
                 /\ records[i].shopify_order_id = webhook_data.id
                 /\ ShopifyWebhook(webhook_topic, webhook_data, TRUE, committed, rendered))
                => /\ response'.status = "already_processed_duplicate_webhook"
                   /\ records' = records
                   /\ calls'.result_email = calls.result_email
                   /\ calls'.purchased = calls.purchased

\* C25: a delivery of an accepted topic for a record whose shopify_order_id
\* equals the incoming order id returns already_processed_duplicate_webhook
\* without changing the record and without sending an email; so over any
\* number of deliveries of one order to one record, the record is marked
\* purchased for it once and the result email is attempted at most once.
C25_WebhookDeduplication ==
    /\ [][DuplicateAnswered]_vars
    /\ [](\A ro \in PairsOfRecordAndOrder :
             calls.purchased[ro] <= 1 /\ calls.result_email[ro] <= 1)

\* a result field that is set keeps its text
SetFieldsKept ==
    /\ records[1].preview_result_zh # NoResult
          => records'[1].preview_result_zh = records[1].preview_result_zh
    /\ records[1].preview_result_en # NoResult
          => records'[1].preview_result_en = records[1].preview_result_en
    /\ records[1].full_result_zh # NoResult
          => records'[1].full_result_zh = records[1].full_result_zh
    /\ records[1].full_result_en # NoResult
          => records'[1].full_result_en = records[1].full_result_en

\* C27: over any sequence of generate_preview_results, generate_full_results
\* and generate_english_translation calls on a record, a result field that
\* is set is never overwritten; preview_result_zh and preview_result_en are
\* set together or not at all; full_result_en is set only when
\* full_result_zh is set.
C27_ResultsWrittenOnce ==
    /\ [][SetFieldsKept]_vars
    /\ []((records[1].preview_result_zh # NoResult)
             <=> (records[1].preview_result_en # NoResult))
    /\ [](records[1].full_result_en # NoResult => records[1].full_result_zh # NoResult)

\* every field is set, the preview by the second call, and a later call of
\* generate_preview_results with a result has been made
C27_Witness ==
    /\ records[1].preview_result_zh = ResultText(2)
    /\ records[1].preview_result_en = ResultText(2)
    /\ records[1].full_result_zh # NoResult
    /\ records[1].full_result_en # NoResult
    /\ response.handler = "generate_preview_results"
    /\ calls.generated = MaxGenerations

\* create_product answers 400 and stores nothing when the limit is reached
CreateRefusedAtLimit ==
    \A committed \in BOOLEAN :
        (Len(products) >= ProductLimit /\ CreateProduct(committed))
        => response'.status = 400 /\ products' = products

\* a get_products that returns leaves at least three products stored and
\* returns three
GetLeavesThree ==
    (GetProducts(TRUE) /\ response'.status = 200)
    => Len(products') >= ProductLimit /\ Len(response'.returned) = ProductLimit

VerifyOnlyLive ==
    \A token \in TokenNames \cup {UnknownToken} :
        VerifyToken(token)
        => /\ response'.success
                 => token \in DOMAIN tokens /\ now <= tokens[token].expires_at
           /\ (token \in DOMAIN tokens /\ now > tokens[token].expires_at)
                 => token \notin DOMAIN tokens'

\* cleanup_expired_tokens removes the expired tokens and only them, and
\* leaves the others as they are
CleanupExact ==
    CleanupExpiredTokens
    => /\ DOMAIN tokens' =
             {token \in DOMAIN tokens : now <= tokens[token].expires_at}
       /\ \A token \in DOMAIN tokens' : tokens'[token] = tokens[token]

\* C29: with token reuse disabled, verify_token succeeds at most once for a
\* generated token over any sequence of verify_token and
\* cleanup_expired_tokens calls; it never succeeds for an unknown token or
\* after the expiry time; a verify attempt removes an expired token; and
\* cleanup_expired_tokens removes exactly the expired tokens and leaves the
\* unexpired ones and their used flags unchanged.
C29_SingleUseToken ==
    /\ [](\A token \in TokenNames : calls.verified[token] <= 1)
    /\ [][VerifyOnlyLive /\ CleanupExact]_vars

\* a second verify_token of a used, unexpired token was refused after the
\* other token had expired and been removed
C29_Witness ==
    /\ response = [handler |-> "verify_token", token |-> "t2", success |-> FALSE]
    /\ calls.verified["t2"] = 1
    /\ calls.generated = TokenNames
    /\ DOMAIN tokens = {"t2"}
    /\ tokens["t2"].used
    /\ now <= tokens["t2"].expires_at

\* a text as mask_text leaves it: None, no longer than preview_length, or
\* preview_length characters, at most ten mask characters and the teaser
MaskedText(text, preview_length, lang) ==
    \/ text.t # "str"
    \/ Len(text.s) <= preview_length
    \/ LET n == Len(text.s)
           stars == n - preview_length - Len(Teaser(lang))
       IN  /\ stars \in 0..10
           /\ SubSeq(text.s, n - Len(Teaser(lang)) + 1, n) = Teaser(lang)
           /\ \A i \in (preview_length + 1)..(preview_length + stars) :
                  text.s[i] = MASK_CHAR

\* the liudao and zhengyuan texts of one language are masked
MaskedResults(results, lang) ==
    /\ results.liudao.data # PyNone
          => \A item \in {"past_info", "now_info", "future_info"} :
                 MaskedText(results.liudao.data.liudao_info[item].liudao_detail_desc,
                            LiudaoPreview, lang)
    /\ results.zhengyuan.data # PyNone
          => LET info == results.zhengyuan.data.zhengyuan_info
             IN  /\ \A f \in DOMAIN HuaxiangPreview :
                        MaskedText(info.huaxiang[f], HuaxiangPreview[f], lang)
                 /\ \A f \in DOMAIN TezhiPreview :
                        MaskedText(info.tezhi[f], TezhiPreview[f], lang)
                 /\ \A f \in DOMAIN ZhiyinPreview :
                        MaskedText(info.zhiyin[f], ZhiyinPreview[f], lang)
                 /\ MaskedText(info.yunshi, YunshiPreview, lang)

MaskedBody(body) ==
    /\ MaskedResults(body.astrology_results, "en")
    /\ MaskedResults(body.chinese, "zh")

\* C30: every response calculate_astrology returns for a verified email,
\* computed or served from the cache, has its liudao and zhengyuan texts
\* masked, and every value written to the cache is such a masked response.
C30_MaskedResponsesOnly ==
    /\ (response.handler = "calculate_astrology" /\ response.status = 200)
          => MaskedBody(response.body)
    /\ \A k \in DOMAIN cache : MaskedBody(cache[k])

\* the second request that passed the gate was answered from the cache, with
\* a result whose long texts are masked
C30_Witness ==
    /\ response.handler = "calculate_astrology"
    /\ response.status = 200
    /\ calls.cache_get = 2
    /\ Len(records) = 1
    /\ \E k \in DOMAIN cache : cache[k] = response.body
    /\ response.body.chinese.zhengyuan.data # PyNone
    /\ response.body.chinese.zhengyuan.data.zhengyuan_info.yunshi.t = "str"
    /\ Len(response.body.chinese.zhengyuan.data.zhengyuan_info.yunshi.s)
          = YunshiPreview + 8 + Len(TeaserZh)
    /\ response.body.astrology_results.liudao.data # PyNone
    /\ Len(response.body.astrology_results.liudao.data.liudao_info.past_info.liudao_detail_desc.s)
          = LiudaoPreview + 10 + Len(TeaserEn)

====
